---- MODULE Spec2Model ----
(***************************************************************************)
(* A model of the scan-assembly, read-path, batch-detection, rescaling,   *)
(* threshold-classifier and patch-extraction code of joyprojects/wildfire. *)
(* Each group of operations has its own specification; the variables of    *)
(* the other groups stay at their idle values.                             *)
(***************************************************************************)
EXTENDS Integers, Sequences, FiniteSets, TLC

VARIABLES
    patch_args,     \* arguments of a get_patch_indices call
    patch_out,      \* its return value, or the error it raised
    masks,          \* the four boolean masks handed to predict
    predict_out,    \* predict's return value, or the error it raised
    predict_trace,  \* the steps predict executed, in order
    scan_bands,     \* the list of bands handed to the GoesScan constructor
    scan_edits,     \* how many changes the caller made to a complete band list
    scan_out,       \* the constructed GoesScan, or the error raised
    disk,           \* the band files under the local directory
    s3store,        \* the band files in the remote store
    get_req,        \* the arguments of a get_goes_scan call
    get_out,        \* the GoesScan it returned, or the error it raised
    get_trace,      \* the storage operations it performed, in order
    get_files,      \* the files the returned GoesScan was read from
    rs_band,        \* a GoesBand
    rs_once,        \* rs_band.rescale_to_2km()
    rs_twice,       \* rs_band.rescale_to_2km().rescale_to_2km()
    rs_scan,        \* a GoesScan
    rs_scan_once,   \* rs_scan.rescale_to_2km()
    rs_scan_twice,  \* rs_scan.rescale_to_2km().rescale_to_2km()
    find_filepaths, \* the file list handed to find_wildfires_goes
    find_groups,    \* the groups it was split into, or the error raised
    find_results,   \* per group: the task's return value or the error it raised
    find_out,       \* find_wildfires_goes' return value, or the error it raised
    extract_args,   \* arguments of an extract_patches_2d call
    extract_out,    \* the patches it returned, or the error it raised
    fb_band,        \* the GoesBand that filter_bad_pixels is called on
    fb_out,         \* the GoesBand it returned
    nm_text,        \* a file name, as text
    nm_parsed,      \* parse_filename's return value for it, or the error raised
    nm_path,        \* the path to_netcdf builds for the band read from it
    sq_scans,       \* the list handed to the GoesSequence constructor
    sq_out,         \* the GoesSequence constructed, or the error raised
    sq_permuted,    \* the same list in another order
    sq_permuted_out, \* the GoesSequence constructed from that, or the error raised
    fl_arr,         \* flatten_array: the list given
    fl_numpy,       \* flatten_array: the numpy release at hand
    fl_out,         \* flatten_array: the value returned or error raised
    mp_impl,        \* map_function: the module it is taken from
    mp_numpy,       \* map_function: the numpy release at hand
    mp_args,        \* map_function: function_args
    mp_arity,       \* map_function: the number of arguments the function takes
    mp_flatten,     \* map_function: the flatten argument
    mp_tasks,       \* map_function: the argument tuples of the submitted tasks
    mp_results,     \* map_function: the finished tasks with their results, in order of completion
    mp_out,         \* map_function: the value returned or error raised
    ps_scan,        \* persistence: region, satellite and start of the scan at hand
    ps_written,     \* GoesScan.to_netcdf: the paths returned
    ps_downloaded,  \* download_file: the local paths of the bands downloaded so far
    ps_searched,    \* list_local_files: the directory of the glob pattern
    dl_disk,        \* download_files: the local files
    dl_remote,      \* download_files: the files of the remote store
    dl_first,       \* download_files: outcome of the first call
    dl_second,      \* download_files: outcome of the second call
    hot_bt7,        \* is_hot_pixel: brightness temperature of band 7
    hot_bt14,       \* is_hot_pixel: brightness temperature of band 14
    hot_other,      \* get_model_features_goes: the cloud, water and night masks
    hot_is_hot,     \* is_hot_pixel: the mask returned
    hot_prediction, \* predict_wildfires_goes: the mask returned
    hot_report      \* parse_scan_for_wildfire: the value returned

vars == <<patch_args, patch_out, masks, predict_out, predict_trace,
          scan_bands, scan_edits, scan_out,
          disk, s3store, get_req, get_out, get_trace, get_files,
          rs_band, rs_once, rs_twice, rs_scan, rs_scan_once, rs_scan_twice,
          find_filepaths, find_groups, find_results, find_out,
          extract_args, extract_out,
          fb_band, fb_out,
          nm_text, nm_parsed, nm_path,
          sq_scans, sq_out, sq_permuted, sq_permuted_out,
          fl_arr, fl_numpy, fl_out,
          mp_impl, mp_numpy, mp_args, mp_arity, mp_flatten, mp_tasks, mp_results, mp_out,
          ps_scan, ps_written, ps_downloaded, ps_searched,
          dl_disk, dl_remote, dl_first, dl_second,
          hot_bt7, hot_bt14, hot_other, hot_is_hot, hot_prediction, hot_report>>

hot_vars == <<hot_bt7, hot_bt14, hot_other, hot_is_hot, hot_prediction, hot_report>>

download_vars == <<dl_disk, dl_remote, dl_first, dl_second>>

persist_vars == <<ps_scan, ps_written, ps_downloaded, ps_searched>>

map_vars == <<mp_impl, mp_numpy, mp_args, mp_arity, mp_flatten, mp_tasks, mp_results, mp_out>>

flatten_vars == <<fl_arr, fl_numpy, fl_out>>

sequence_vars == <<sq_scans, sq_out, sq_permuted, sq_permuted_out>>

name_vars == <<nm_text, nm_parsed, nm_path>>

filter_vars == <<fb_band, fb_out>>

extract_vars == <<extract_args, extract_out>>

find_vars == <<find_filepaths, find_groups, find_results, find_out>>
get_vars == <<disk, s3store, get_req, get_out, get_trace, get_files>>
rescale_vars == <<rs_band, rs_once, rs_twice, rs_scan, rs_scan_once, rs_scan_twice>>

scan_vars == <<scan_bands, scan_edits, scan_out>>

patch_vars == <<patch_args, patch_out>>
predict_vars == <<masks, predict_out, predict_trace>>

\* The value of a result slot before the call has returned.
Pending == [pending |-> TRUE]

\* A raised exception.
Raise(kind) == [error |-> kind]

IsError(v) == "error" \in DOMAIN v

-----------------------------------------------------------------------------
(* Patch extraction: wildfire/models/dnn/training_data.py                   *)

MaxIndex == 7
MaxStride == 3
MaxNeg == 1

\* A slip that takes the stop value into the range.
RECURSIVE arange_inclusive(_, _, _)
arange_inclusive(start, stop, step) ==
    IF start > stop THEN <<>> ELSE <<start>> \o arange_inclusive(start + step, stop, step)

\* np.arange(start, stop, step) for an integer step >= 1: start, start+step, ...
\* as long as the value is < stop.
RECURSIVE arange(_, _, _)
arange(start, stop, step) ==
    IF start >= stop THEN <<>> ELSE <<start>> \o arange(start + step, stop, step)

\* A slip that drops the appended flush index.
get_patch_indices_no_flush(max_index, length, stride) ==
    IF max_index < length THEN Raise("ValueError")
    ELSE IF stride = 0 THEN Raise("ZeroDivisionError")
    ELSE [value |-> arange(0, max_index - length, stride)]

get_patch_indices(max_index, length, stride) ==
    IF max_index < length THEN Raise("ValueError")
    ELSE IF stride = 0 THEN Raise("ZeroDivisionError")
    ELSE LET last_patch == max_index - length
             indices == arange(0, last_patch, stride)
         IN [value |-> Append(indices, last_patch)]

PatchArgs ==
    [max_index : (0 - MaxNeg)..MaxIndex,
     length : (0 - MaxNeg)..(MaxIndex + 1),
     stride : 0..MaxStride]

PatchIdle == patch_args = [idle |-> TRUE] /\ patch_out = Pending

InitPatch == patch_args \in PatchArgs /\ patch_out = Pending

CallGetPatchIndices ==
    /\ patch_out = Pending
    /\ "idle" \notin DOMAIN patch_args
    /\ patch_out' = get_patch_indices(patch_args.max_index, patch_args.length,
                                      patch_args.stride)
    /\ UNCHANGED patch_args

NextPatch == CallGetPatchIndices /\ UNCHANGED <<predict_vars, scan_vars, get_vars, rescale_vars, find_vars, extract_vars, filter_vars, name_vars, sequence_vars, flatten_vars, map_vars, persist_vars, download_vars, hot_vars>>

-----------------------------------------------------------------------------
(* Threshold classifier: wildfire/models/threshold_model/model.py           *)

MaxPix == 2

\* An array is its shape and its values in row-major order.
Shapes == {s \in (1..MaxPix) \X (1..MaxPix) : s[1] * s[2] <= MaxPix}

Size(shape) == shape[1] * shape[2]

BoolArrays(shape) == {[shape |-> shape, data |-> d] : d \in [1..Size(shape) -> BOOLEAN]}

ConstArrays(shape) ==
    {[shape |-> shape, data |-> [i \in 1..Size(shape) |-> b]] : b \in BOOLEAN}

shapes_match(args) == Cardinality({args[i].shape : i \in DOMAIN args}) = 1

\* numpy's elementwise combination of the four masks; operands of unequal
\* shape are broadcast when every dimension agrees or is 1.
Broadcastable(args) ==
    \A d \in 1..2 : Cardinality({args[i].shape[d] : i \in DOMAIN args} \ {1}) <= 1

Max(S) == CHOOSE x \in S : \A y \in S : y <= x

BroadcastShape(args) ==
    <<Max({args[i].shape[1] : i \in DOMAIN args}),
      Max({args[i].shape[2] : i \in DOMAIN args})>>

\* The value of array a at flat position k of the broadcast shape.
At(a, shape, k) ==
    LET r == ((k - 1) \div shape[2]) + 1
        c == ((k - 1) % shape[2]) + 1
        ar == IF a.shape[1] = 1 THEN 1 ELSE r
        ac == IF a.shape[2] = 1 THEN 1 ELSE c
    IN a.data[(ar - 1) * a.shape[2] + ac]

\* A slip in the boolean formula: cloud and water joined by "or".
combine_or(is_hot, is_cloud, is_water, is_night) ==
    LET args == <<is_hot, is_cloud, is_water, is_night>>
    IN IF ~Broadcastable(args) THEN Raise("ValueError")
       ELSE LET shape == BroadcastShape(args)
            IN [shape |-> shape,
                data |-> [k \in 1..Size(shape) |->
                            At(is_hot, shape, k)
                            /\ (At(is_night, shape, k)
                                \/ (~At(is_cloud, shape, k) \/ ~At(is_water, shape, k)))]]

combine(is_hot, is_cloud, is_water, is_night) ==
    LET args == <<is_hot, is_cloud, is_water, is_night>>
    IN IF ~Broadcastable(args) THEN Raise("ValueError")
       ELSE LET shape == BroadcastShape(args)
            IN [shape |-> shape,
                data |-> [k \in 1..Size(shape) |->
                            At(is_hot, shape, k)
                            /\ (At(is_night, shape, k)
                                \/ (~At(is_cloud, shape, k) /\ ~At(is_water, shape, k)))]]

\* A slip that combines the masks first and checks the shapes afterwards.
predict_check_last(m) ==
    LET out == combine(m.is_hot, m.is_cloud, m.is_water, m.is_night)
    IN IF IsError(out) \/ ~shapes_match(<<m.is_hot, m.is_cloud, m.is_water, m.is_night>>)
       THEN [out |-> Raise("ValueError"), trace |-> <<"combine", "assert_shapes_match">>]
       ELSE [out |-> out, trace |-> <<"combine", "assert_shapes_match">>]

\* predict: the steps executed and the value returned or error raised.
predict(m) ==
    IF ~shapes_match(<<m.is_hot, m.is_cloud, m.is_water, m.is_night>>)
    THEN [out |-> Raise("ValueError"), trace |-> <<"assert_shapes_match">>]
    ELSE [out |-> combine(m.is_hot, m.is_cloud, m.is_water, m.is_night),
          trace |-> <<"assert_shapes_match", "combine">>]

\* Four masks of one shape with arbitrary values, or four masks whose shapes
\* are not all equal (constant-valued, as their values cannot matter).
PredictInputs ==
    UNION {[is_hot : BoolArrays(s), is_cloud : BoolArrays(s),
            is_water : BoolArrays(s), is_night : BoolArrays(s)] : s \in Shapes}
    \cup
    {m \in [is_hot : UNION {ConstArrays(s) : s \in Shapes},
            is_cloud : UNION {ConstArrays(s) : s \in Shapes},
            is_water : UNION {ConstArrays(s) : s \in Shapes},
            is_night : UNION {ConstArrays(s) : s \in Shapes}] :
        ~shapes_match(<<m.is_hot, m.is_cloud, m.is_water, m.is_night>>)}

PredictIdle ==
    masks = [idle |-> TRUE] /\ predict_out = Pending /\ predict_trace = <<>>

InitPredict == masks \in PredictInputs /\ predict_out = Pending /\ predict_trace = <<>>

CallPredict ==
    /\ predict_out = Pending
    /\ "idle" \notin DOMAIN masks
    /\ predict_out' = predict(masks).out
    /\ predict_trace' = predict(masks).trace
    /\ UNCHANGED masks

NextPredict == CallPredict /\ UNCHANGED <<patch_vars, scan_vars, get_vars, rescale_vars, find_vars, extract_vars, filter_vars, name_vars, sequence_vars, flatten_vars, map_vars, persist_vars, download_vars, hot_vars>>

-----------------------------------------------------------------------------
(* Scan assembly: wildfire/data/goes_level_1/scan.py                        *)

NumBands == 16
MaxEdits == 2

AllBandIds == 1..NumBands

\* A band's dataset, as far as assembly reads it: the four parts of its
\* dataset_name, and whether that name has the form parse_filename expects.
Band(band_id, region, satellite, scan_start) ==
    [band_id |-> band_id, region |-> region, satellite |-> satellite,
     scan_start |-> scan_start, name_form |-> "match"]

\* The forms a file name can have: one the pattern matches with a timestamp
\* that strptime reads, one the pattern does not match, and one the pattern
\* matches with a timestamp that strptime rejects.
NameForms == {"match", "no_match", "bad_timestamp"}

\* The dataset_name attribute of a dataset.
dataset_name(dataset) ==
    [form |-> dataset.name_form, region |-> dataset.region,
     band_id |-> dataset.band_id, satellite |-> dataset.satellite,
     scan_start |-> dataset.scan_start]

\* parse_filename: re.search(...).groups() on no match fails with an
\* AttributeError, strptime on a bad timestamp with a ValueError.
parse_filename(filename) ==
    IF filename.form = "no_match" THEN Raise("AttributeError")
    ELSE IF filename.form = "bad_timestamp" THEN Raise("ValueError")
    ELSE [value |-> <<filename.region, filename.band_id, filename.satellite,
                      filename.scan_start>>]

\* GoesBand.__init__: the band's attributes come from parsing dataset_name.
GoesBand(dataset) ==
    LET parsed == parse_filename(dataset_name(dataset))
    IN IF IsError(parsed) THEN parsed ELSE dataset

Regions == {"M1", "M2"}
Satellites == {"G16", "G17"}
\* Scan start times, in half minutes: 2 and 3 lie in the same minute.
ScanStarts == {2, 3, 4}

\* The bands of one complete scan, in ascending band order.
CompleteScan(region, satellite, scan_start) ==
    [k \in AllBandIds |-> Band(k, region, satellite, scan_start)]

RemoveAt(s, p) == SubSeq(s, 1, p - 1) \o SubSeq(s, p + 1, Len(s))

Reversed(s) == [i \in 1..Len(s) |-> s[Len(s) + 1 - i]]

\* {band.band_id: band for band in bands}: the keys of the dictionary.
ParsedKeys(bands) == {bands[i].band_id : i \in 1..Len(bands)}

\* {band.band_id: band for band in bands}: a later band replaces an earlier
\* one with the same id.
Parsed(bands, band_id) ==
    LET last == CHOOSE i \in 1..Len(bands) :
                    /\ bands[i].band_id = band_id
                    /\ \A j \in (i + 1)..Len(bands) : bands[j].band_id # band_id
    IN bands[last]

RaiseMissing(missing) ==
    [error |-> "ValueError", message |-> "Missing bands", missing |-> missing]

RaiseMessage(message) == [error |-> "ValueError", message |-> message]

\* A slip that looks for the ids of range(1, 16) only.
missing_bands_but_last(bands) == (AllBandIds \ {NumBands}) \ ParsedKeys(bands)

\* set(range(1, 17)) - set(bands.keys())
missing_bands(bands) == AllBandIds \ ParsedKeys(bands)

has_16_bands(bands) == Len(bands) = NumBands

consistent_attributes(bands) ==
    Cardinality({<<bands[i].region, bands[i].satellite, bands[i].scan_start>> :
                    i \in 1..Len(bands)}) = 1

\* A slip that keeps the keys in the order in which the ids first occur in the
\* input list.
RECURSIVE key_order_of_input(_)
key_order_of_input(bands) ==
    IF bands = <<>> THEN <<>>
    ELSE LET NotHead(band) == band.band_id # Head(bands).band_id
         IN <<Head(bands).band_id>> \o key_order_of_input(SelectSeq(Tail(bands), NotHead))

\* list(range(1, 17)): the order in which _parse_input inserts the keys
\* band_1 .. band_16 into the dictionary it returns.
key_order(bands) == [p \in 1..NumBands |-> p]

\* A slip that checks the length of the list before looking for missing bands.
GoesScan_length_check_first(bands) ==
    IF ~has_16_bands(bands) THEN RaiseMessage("Too many bands provided")
    ELSE IF missing_bands(bands) # {} THEN RaiseMissing(missing_bands(bands))
    ELSE IF ~consistent_attributes(bands)
    THEN RaiseMessage("All bands must have the same scan start time, region, and satellite")
    ELSE [keys |-> key_order(bands),
          bands |-> [k \in AllBandIds |-> Parsed(bands, k)],
          region |-> bands[1].region,
          satellite |-> bands[1].satellite,
          scan_time_utc |-> bands[1].scan_start]

\* A slip that leaves out the length check.
GoesScan_no_length_check(bands) ==
    IF missing_bands(bands) # {} THEN RaiseMissing(missing_bands(bands))
    ELSE IF ~consistent_attributes(bands)
    THEN RaiseMessage("All bands must have the same scan start time, region, and satellite")
    ELSE [keys |-> key_order(bands),
          bands |-> [k \in AllBandIds |-> Parsed(bands, k)],
          region |-> bands[1].region,
          satellite |-> bands[1].satellite,
          scan_time_utc |-> bands[1].scan_start]

\* GoesScan.__init__: _parse_input with its three checks in order, then the
\* scan's own attributes from the first band of the input.
GoesScan(bands) ==
    IF missing_bands(bands) # {} THEN RaiseMissing(missing_bands(bands))
    ELSE IF ~has_16_bands(bands) THEN RaiseMessage("Too many bands provided")
    ELSE IF ~consistent_attributes(bands)
    THEN RaiseMessage("All bands must have the same scan start time, region, and satellite")
    ELSE [keys |-> key_order(bands),
          bands |-> [k \in AllBandIds |-> Parsed(bands, k)],
          region |-> bands[1].region,
          satellite |-> bands[1].satellite,
          scan_time_utc |-> bands[1].scan_start]

ScanIdle == scan_bands = <<>> /\ scan_edits = 0 /\ scan_out = [idle |-> TRUE]

InitScan ==
    /\ scan_bands = CompleteScan("M1", "G17", 2)
    /\ scan_edits = 0
    /\ scan_out = Pending

CanEdit == scan_out = Pending /\ scan_edits < MaxEdits

\* The caller leaves a band out of the list.
DropBand ==
    /\ CanEdit
    /\ \E p \in 1..Len(scan_bands) : scan_bands' = RemoveAt(scan_bands, p)
    /\ scan_edits' = scan_edits + 1
    /\ UNCHANGED <<scan_out, patch_vars, predict_vars, get_vars, rescale_vars, find_vars, extract_vars, filter_vars, name_vars, sequence_vars, flatten_vars, map_vars, persist_vars, download_vars, hot_vars>>

\* The caller adds a band to the list: one of the 16, or one with another id.
AddBand ==
    /\ CanEdit
    /\ \E k \in 1..(NumBands + 1) :
          scan_bands' = Append(scan_bands, Band(k, "M1", "G17", 2))
    /\ scan_edits' = scan_edits + 1
    /\ UNCHANGED <<scan_out, patch_vars, predict_vars, get_vars, rescale_vars, find_vars, extract_vars, filter_vars, name_vars, sequence_vars, flatten_vars, map_vars, persist_vars, download_vars, hot_vars>>

\* One band of the list is of another region, satellite or scan.
ForeignBand ==
    /\ CanEdit
    /\ \E p \in 1..Len(scan_bands) :
          \/ scan_bands' = [scan_bands EXCEPT ![p].region = "M2"]
          \/ scan_bands' = [scan_bands EXCEPT ![p].satellite = "G16"]
          \/ scan_bands' = [scan_bands EXCEPT ![p].scan_start = 3]
    /\ scan_bands' # scan_bands
    /\ scan_edits' = scan_edits + 1
    /\ UNCHANGED <<scan_out, patch_vars, predict_vars, get_vars, rescale_vars, find_vars, extract_vars, filter_vars, name_vars, sequence_vars, flatten_vars, map_vars, persist_vars, download_vars, hot_vars>>

\* The list arrives in the opposite order.
ReverseBands ==
    /\ CanEdit
    /\ scan_bands' = Reversed(scan_bands)
    /\ scan_edits' = scan_edits + 1
    /\ UNCHANGED <<scan_out, patch_vars, predict_vars, get_vars, rescale_vars, find_vars, extract_vars, filter_vars, name_vars, sequence_vars, flatten_vars, map_vars, persist_vars, download_vars, hot_vars>>

Construct ==
    /\ scan_out = Pending
    /\ scan_out' = GoesScan(scan_bands)
    /\ UNCHANGED <<scan_bands, scan_edits, patch_vars, predict_vars, get_vars, rescale_vars, find_vars, extract_vars, filter_vars, name_vars, sequence_vars, flatten_vars, map_vars, persist_vars, download_vars, hot_vars>>

NextScan == DropBand \/ AddBand \/ ForeignBand \/ ReverseBands \/ Construct

-----------------------------------------------------------------------------
(* Read path: get_goes_scan, list_local_files, download_files               *)

\* A band file is named by the values its filename encodes; the dataset a
\* file holds carries the same name (dataset_name).
Minute(scan_start) == scan_start \div 2

SATELLITE_SHORT_HAND(satellite) ==
    CASE satellite = "noaa-goes16" -> "G16"
      [] satellite = "noaa-goes17" -> "G17"

\* decide_fastest_glob_patterns with end_time None: one pattern, which fixes
\* the region, the satellite short code and the start time to the minute, and
\* leaves the band ("??") and the rest of the name ("*") open.
decide_fastest_glob_patterns(satellite, region, start_time) ==
    <<[region |-> region,
       satellite_short |-> SATELLITE_SHORT_HAND(satellite),
       minute |-> Minute(start_time)]>>

Matches(pattern, file) ==
    /\ file.region = pattern.region
    /\ file.satellite = pattern.satellite_short
    /\ Minute(file.scan_start) = pattern.minute

\* The files that match one pattern, as a list: by scan start, then by band
\* (the order of their names).
Before(f, g) ==
    \/ f.scan_start < g.scan_start
    \/ f.scan_start = g.scan_start /\ f.band_id < g.band_id

RECURSIVE Listing(_)
Listing(files) ==
    IF files = {} THEN <<>>
    ELSE LET first == CHOOSE f \in files : \A g \in files \ {f} : Before(f, g)
         IN <<first>> \o Listing(files \ {first})

\* The list object that one glob call returns.
GlobResult(paths) == [files |-> paths]

IsList(value) == "files" \in DOMAIN value

glob(store, pattern) == GlobResult(Listing({f \in store : Matches(pattern, f)}))

\* map_function: one result per element of function_args, in order. Here the
\* function is a glob over `store`.
map_glob(store, glob_patterns) ==
    [i \in 1..Len(glob_patterns) |-> glob(store, glob_patterns[i])]

\* numpy makes a list of lists of unequal lengths a one-dimensional array of
\* list objects in its older releases, and refuses it with ValueError in its
\* newer ones; the repository does not say which release it runs on.
NumpyBuilds == {"object_array", "value_error"}

IsRagged(arr) ==
    /\ \E i \in 1..Len(arr) : IsList(arr[i])
    /\ \E i, j \in 1..Len(arr) :
          ~IsList(arr[i]) \/ ~IsList(arr[j]) \/ Len(arr[i].files) # Len(arr[j].files)

\* len(np.shape(arr)), len(np.array(arr).shape): the number of dimensions of
\* a list of scalars or a list of lists of scalars.
ndim(arr, numpy) ==
    IF IsRagged(arr)
    THEN IF numpy = "object_array" THEN [value |-> 1] ELSE Raise("ValueError")
    ELSE IF \E i \in 1..Len(arr) : IsList(arr[i]) THEN [value |-> 2]
    ELSE [value |-> 1]

\* [item for list_1d in arr for item in list_1d]
RECURSIVE items_of_lists(_)
items_of_lists(arr) ==
    IF arr = <<>> THEN <<>> ELSE Head(arr).files \o items_of_lists(Tail(arr))

\* flatten_array: `arr` itself when numpy sees one dimension, the items of
\* its lists otherwise.
flatten_array(arr, numpy) ==
    LET shape == ndim(arr, numpy)
    IN IF IsError(shape) THEN shape
       ELSE IF shape.value = 1 THEN [value |-> arr]
       ELSE [value |-> items_of_lists(arr)]

\* The patterns of one start time are one pattern, so the list that
\* flatten_array gets is one list and never a ragged one: the numpy release
\* makes no difference here.
list_local_files(files, satellite, region, start_time) ==
    flatten_array(map_glob(files, decide_fastest_glob_patterns(satellite, region, start_time)),
                  "object_array").value

\* list_s3_files with end_time None returns map_function's value as it is:
\* one list per glob pattern.
list_s3_files(files, satellite, region, start_time) ==
    map_glob(files, decide_fastest_glob_patterns(satellite, region, start_time))

\* s3_filepath_to_local: split_path is a string operation; on a list it raises.
s3_filepath_to_local(s3_filepath) ==
    IF IsList(s3_filepath) THEN Raise("AttributeError") ELSE [value |-> s3_filepath]

Range(seq) == {seq[i] : i \in 1..Len(seq)}

\* download_files: the value returned or error raised, the storage operations
\* performed, and the local files afterwards. The files to download go to
\* map_function as a list of [s3 filepath, local_directory, s3] triples, which
\* it spreads over the positional arguments of _download_file_mp, so that no
\* file is downloaded when there is one to download.
download_files(local, remote, satellite, region, start_time) ==
    LET s3_filepaths == list_s3_files(remote, satellite, region, start_time)
        already_local_filepaths == list_local_files(local, satellite, region, start_time)
        mapped == [i \in 1..Len(s3_filepaths) |-> s3_filepath_to_local(s3_filepaths[i])]
        listed == <<"list_s3_files", "list_local_files">>
    IN IF \E i \in 1..Len(mapped) : IsError(mapped[i])
       THEN [out |-> Raise("AttributeError"), trace |-> listed, disk |-> local]
       ELSE LET keys == {mapped[i].value : i \in 1..Len(mapped)}
                to_download == keys \ Range(already_local_filepaths)
            IN IF to_download = {}
               THEN [out |-> [value |-> Listing(keys)], trace |-> listed, disk |-> local]
               ELSE [out |-> Raise("TypeError"),
                     trace |-> listed \o <<"download">>, disk |-> local]

\* read_netcdf: the GoesBand of the dataset that the file holds.
read_netcdf(local_filepath) == GoesBand(local_filepath)

\* read_netcdfs: one GoesBand per file, in the order of the list, then a
\* GoesScan of them.
read_netcdfs(local_filepaths) ==
    LET bands == [i \in 1..Len(local_filepaths) |-> read_netcdf(local_filepaths[i])]
    IN IF \E i \in 1..Len(bands) : IsError(bands[i])
       THEN bands[CHOOSE i \in 1..Len(bands) :
                     IsError(bands[i]) /\ \A j \in 1..(i - 1) : ~IsError(bands[j])]
       ELSE GoesScan(bands)

\* A slip that never takes the local files for complete.
local_never_complete(local_filepaths) == FALSE

\* A slip that takes the local files for complete only when a scan can be
\* assembled from them.
local_complete_if_well_formed(local_filepaths) ==
    Len(local_filepaths) = NumBands /\ ~IsError(read_netcdfs(local_filepaths))

\* len(local_filepaths) == 16
local_complete(local_filepaths) == Len(local_filepaths) = NumBands

\* A slip that ends without raising when nothing was found.
scan_not_found_silent(local_filepaths) == [value |-> "None"]

\* The raise that ends get_goes_scan when s3 access is not allowed.
scan_not_found(local_filepaths) == RaiseMessage("Could not find scan")

\* get_goes_scan: the value returned or error raised, the storage operations
\* performed, the local files afterwards and the files the scan was read from.
get_goes_scan(local, remote, req) ==
    LET local_filepaths ==
            list_local_files(local, req.satellite, req.region, req.scan_time_utc)
    IN IF local_complete(local_filepaths)
       THEN [out |-> read_netcdfs(local_filepaths),
             trace |-> <<"list_local_files", "read_netcdfs">>,
             disk |-> local, files |-> local_filepaths]
       ELSE IF req.s3
       THEN LET got == download_files(local, remote, req.satellite, req.region,
                                      req.scan_time_utc)
            IN IF IsError(got.out)
               THEN [out |-> got.out, trace |-> <<"list_local_files">> \o got.trace,
                     disk |-> got.disk, files |-> <<>>]
               ELSE IF Len(got.out.value) = NumBands
               THEN [out |-> read_netcdfs(got.out.value),
                     trace |-> <<"list_local_files">> \o got.trace \o <<"read_netcdfs">>,
                     disk |-> got.disk, files |-> got.out.value]
               ELSE [out |-> RaiseMessage("Could not find well-formed scan"),
                     trace |-> <<"list_local_files">> \o got.trace,
                     disk |-> got.disk, files |-> <<>>]
       ELSE [out |-> scan_not_found(local_filepaths),
             trace |-> <<"list_local_files">>, disk |-> local, files |-> <<>>]

\* The stores hold nothing or the 16 files of the requested scan, less some of
\* its files, plus some files of a later scan of the same minute, of another
\* region and of another minute.
RequestedScan == Range(CompleteScan("M1", "G17", 2))

MayLack == {Band(1, "M1", "G17", 2), Band(NumBands, "M1", "G17", 2)}

MayHold ==
    {Band(1, "M1", "G17", 3), Band(2, "M1", "G17", 3),
     Band(1, "M2", "G17", 2), Band(1, "M1", "G17", 4)}

Stores ==
    {(base \ lack) \cup hold :
        base \in {{}, RequestedScan}, lack \in SUBSET MayLack, hold \in SUBSET MayHold}

GetIdle ==
    /\ disk = {} /\ s3store = {}
    /\ get_req = [idle |-> TRUE] /\ get_out = [idle |-> TRUE]
    /\ get_trace = <<>> /\ get_files = <<>>

InitGet ==
    /\ disk \in Stores
    /\ s3store \in Stores
    /\ get_req \in [satellite : {"noaa-goes17"}, region : {"M1"},
                    scan_time_utc : {2, 3}, s3 : BOOLEAN]
    /\ get_out = Pending
    /\ get_trace = <<>>
    /\ get_files = <<>>

CallGetGoesScan ==
    /\ get_out = Pending
    /\ LET got == get_goes_scan(disk, s3store, get_req)
       IN /\ get_out' = got.out
          /\ get_trace' = got.trace
          /\ disk' = got.disk
          /\ get_files' = got.files
    /\ UNCHANGED <<s3store, get_req, patch_vars, predict_vars, scan_vars, rescale_vars, find_vars, extract_vars, filter_vars, name_vars, sequence_vars, flatten_vars, map_vars, persist_vars, download_vars, hot_vars>>

NextGet == CallGetGoesScan

-----------------------------------------------------------------------------
(* Resolution alignment: GoesBand.rescale_to_2km, GoesScan.rescale_to_2km   *)

MaxDim == 4
MaxBase == 2

\* The native pixel width of a band, in units of 250 m: 500 m for band 2,
\* 1 km for bands 1, 3 and 5, 2 km for the others.
NativeWidth(band_id) ==
    IF band_id = 2 THEN 2 ELSE IF band_id \in {1, 3, 5} THEN 4 ELSE 8

\* A dataset of rows x cols pixels of the given width: its x and y axes (the
\* pixel centres) and its radiance, where every pixel holds its own position
\* in the original grid.
Dataset(band_id, region, satellite, scan_start, rows, cols, width) ==
    [band_id |-> band_id, region |-> region, satellite |-> satellite,
     scan_start |-> scan_start, name_form |-> "match",
     rows |-> rows, cols |-> cols,
     x |-> [j \in 0..(cols - 1) |-> j * width + width \div 2],
     y |-> [i \in 0..(rows - 1) |-> i * width + width \div 2],
     Rad |-> [ij \in (0..(rows - 1)) \X (0..(cols - 1)) |-> ij]]

\* xarray's Dataset.thin(k): every k-th value along every dimension.
thin(dataset, k) ==
    LET rows == (dataset.rows + k - 1) \div k
        cols == (dataset.cols + k - 1) \div k
    IN [dataset EXCEPT
           !.rows = rows,
           !.cols = cols,
           !.x = [j \in 0..(cols - 1) |-> dataset.x[k * j]],
           !.y = [i \in 0..(rows - 1) |-> dataset.y[k * i]],
           !.Rad = [ij \in (0..(rows - 1)) \X (0..(cols - 1)) |->
                       dataset.Rad[<<k * ij[1], k * ij[2]>>]]]

\* A slip that gives band 2 the stride of bands 1, 3, 5 and the reverse.
GoesBand_rescale_to_2km_swapped(band) ==
    IF band.band_id \in {1, 3, 5} THEN thin(band, 4)
    ELSE IF band.band_id = 2 THEN thin(band, 2)
    ELSE band

\* GoesBand.rescale_to_2km: the band id alone decides the stride.
GoesBand_rescale_to_2km(band) ==
    IF band.band_id \in {1, 3, 5} THEN thin(band, 2)
    ELSE IF band.band_id = 2 THEN thin(band, 4)
    ELSE band

\* A slip that checks the lengths but leaves the band its own axes.
assign_coords_kept(dataset, x, y) ==
    IF DOMAIN x # DOMAIN dataset.x \/ DOMAIN y # DOMAIN dataset.y
    THEN [error |-> "ValueError", message |-> "conflicting sizes for dimension"]
    ELSE dataset

\* xarray's assign_coords(x=..., y=...): the new axes must have the length of
\* the dimensions they index.
assign_coords(dataset, x, y) ==
    IF DOMAIN x # DOMAIN dataset.x \/ DOMAIN y # DOMAIN dataset.y
    THEN [error |-> "ValueError", message |-> "conflicting sizes for dimension"]
    ELSE [dataset EXCEPT !.x = x, !.y = y]

\* GoesScan.rescale_to_2km: every band rescaled and given the axes of band 16,
\* then a GoesScan of the results.
GoesScan_rescale_to_2km(scan) ==
    LET x16 == scan.bands[16].x
        y16 == scan.bands[16].y
        rescaled == [k \in AllBandIds |->
                        assign_coords(GoesBand_rescale_to_2km(scan.bands[k]), x16, y16)]
    IN IF \E k \in AllBandIds : IsError(rescaled[k])
       THEN rescaled[CHOOSE k \in AllBandIds :
                        IsError(rescaled[k]) /\ \A j \in 1..(k - 1) : ~IsError(rescaled[j])]
       ELSE GoesScan(rescaled)

\* The 16 bands of a scan whose 2 km bands have base x base pixels; mult gives
\* the bands 1, 2, 3 and 5 their size as a multiple of that.
ScanDatasets(base, mult) ==
    [k \in AllBandIds |->
        LET m == IF k \in DOMAIN mult THEN mult[k] ELSE 1
        IN Dataset(k, "M1", "G17", 2, base * m, base * m, NativeWidth(k))]

RescaleIdle ==
    /\ rs_band = [idle |-> TRUE] /\ rs_once = Pending /\ rs_twice = Pending
    /\ rs_scan = [idle |-> TRUE] /\ rs_scan_once = Pending /\ rs_scan_twice = Pending

NotIdle(value) == "idle" \notin DOMAIN value

\* Either a band of any id and size, or a scan.
InitRescale ==
    /\ \/ /\ \E band_id \in AllBandIds, rows \in 1..MaxDim, cols \in 1..MaxDim :
                rs_band = Dataset(band_id, "M1", "G17", 2, rows, cols,
                                  NativeWidth(band_id))
          /\ rs_scan = [idle |-> TRUE]
       \/ /\ \E base \in 1..MaxBase, mult \in [{1, 2, 3, 5} -> {1, 2, 4}] :
                rs_scan = GoesScan(ScanDatasets(base, mult))
          /\ rs_band = [idle |-> TRUE]
    /\ rs_once = Pending /\ rs_twice = Pending
    /\ rs_scan_once = Pending /\ rs_scan_twice = Pending

RescaleBand ==
    /\ NotIdle(rs_band) /\ rs_once = Pending
    /\ rs_once' = GoesBand_rescale_to_2km(rs_band)
    /\ UNCHANGED <<rs_band, rs_twice, rs_scan, rs_scan_once, rs_scan_twice>>
    /\ UNCHANGED <<patch_vars, predict_vars, scan_vars, get_vars, find_vars, extract_vars, filter_vars, name_vars, sequence_vars, flatten_vars, map_vars, persist_vars, download_vars, hot_vars>>

RescaleBandAgain ==
    /\ rs_once # Pending /\ rs_twice = Pending
    /\ rs_twice' = GoesBand_rescale_to_2km(rs_once)
    /\ UNCHANGED <<rs_band, rs_once, rs_scan, rs_scan_once, rs_scan_twice>>
    /\ UNCHANGED <<patch_vars, predict_vars, scan_vars, get_vars, find_vars, extract_vars, filter_vars, name_vars, sequence_vars, flatten_vars, map_vars, persist_vars, download_vars, hot_vars>>

RescaleScan ==
    /\ NotIdle(rs_scan) /\ rs_scan_once = Pending
    /\ rs_scan_once' = GoesScan_rescale_to_2km(rs_scan)
    /\ UNCHANGED <<rs_band, rs_once, rs_twice, rs_scan, rs_scan_twice>>
    /\ UNCHANGED <<patch_vars, predict_vars, scan_vars, get_vars, find_vars, extract_vars, filter_vars, name_vars, sequence_vars, flatten_vars, map_vars, persist_vars, download_vars, hot_vars>>

RescaleScanAgain ==
    /\ rs_scan_once # Pending /\ ~IsError(rs_scan_once) /\ rs_scan_twice = Pending
    /\ rs_scan_twice' = GoesScan_rescale_to_2km(rs_scan_once)
    /\ UNCHANGED <<rs_band, rs_once, rs_twice, rs_scan, rs_scan_once>>
    /\ UNCHANGED <<patch_vars, predict_vars, scan_vars, get_vars, find_vars, extract_vars, filter_vars, name_vars, sequence_vars, flatten_vars, map_vars, persist_vars, download_vars, hot_vars>>

NextRescale == RescaleBand \/ RescaleBandAgain \/ RescaleScan \/ RescaleScanAgain

-----------------------------------------------------------------------------
(* Batch detection: find_wildfires_goes, parse_scan_for_wildfire            *)

MaxUnits == 2

\* Python's None, as a return value.
None == [none |-> TRUE]

\* A file of the batch: the dataset it holds, the form of its path, and
\* whether the classifier finds a fire pixel in it.
File(band_id, region, satellite, scan_start, size, hot) ==
    [path_form |-> "match", hot |-> hot] @@
    Dataset(band_id, region, satellite, scan_start, size, size, NativeWidth(band_id))

\* The path of a file, as parse_filename reads it.
filepath(file) ==
    [form |-> file.path_form, region |-> file.region, band_id |-> file.band_id,
     satellite |-> file.satellite, scan_start |-> file.scan_start]

\* The pixels per side of a band whose 2 km grid is 1 x 1.
NativeSize(band_id) == 8 \div NativeWidth(band_id)

\* The 16 files of one complete scan, in ascending band order.
ScanFiles(region, satellite, scan_start, hot) ==
    [k \in AllBandIds |-> File(k, region, satellite, scan_start, NativeSize(k), hot)]

\* np.unique(scan_times): the distinct values in ascending order.
RECURSIVE unique(_)
unique(values) ==
    IF values = {} THEN <<>>
    ELSE LET least == CHOOSE v \in values : \A w \in values : v <= w
         IN <<least>> \o unique(values \ {least})

\* A slip that puts every path at the front of its group.
group_filepaths_into_scans_prepend(filepaths) ==
    LET parsed == [i \in 1..Len(filepaths) |-> parse_filename(filepath(filepaths[i]))]
    IN IF \E i \in 1..Len(parsed) : IsError(parsed[i])
       THEN parsed[CHOOSE i \in 1..Len(parsed) :
                      IsError(parsed[i]) /\ \A j \in 1..(i - 1) : ~IsError(parsed[j])]
       ELSE LET unique_scan_times == unique({parsed[i].value[4] : i \in 1..Len(parsed)})
                OfTime(t) == LET AtTime(file) == file.scan_start = t
                             IN Reversed(SelectSeq(filepaths, AtTime))
            IN [value |-> [g \in 1..Len(unique_scan_times) |->
                              OfTime(unique_scan_times[g])]]

\* group_filepaths_into_scans: the scan start time of every path, then one
\* group per distinct time, each in the order of the input.
group_filepaths_into_scans(filepaths) ==
    LET parsed == [i \in 1..Len(filepaths) |-> parse_filename(filepath(filepaths[i]))]
    IN IF \E i \in 1..Len(parsed) : IsError(parsed[i])
       THEN parsed[CHOOSE i \in 1..Len(parsed) :
                      IsError(parsed[i]) /\ \A j \in 1..(i - 1) : ~IsError(parsed[j])]
       ELSE LET unique_scan_times == unique({parsed[i].value[4] : i \in 1..Len(parsed)})
                OfTime(t) == LET AtTime(file) == file.scan_start = t
                             IN SelectSeq(filepaths, AtTime)
            IN [value |-> [g \in 1..Len(unique_scan_times) |->
                              OfTime(unique_scan_times[g])]]

\* predict_wildfires_goes(goes_scan).mean() > 0: the features are computed on
\* the rescaled scan; whether a pixel is classified as fire is given with the
\* scan's band 7.
predict_wildfires_goes(goes_scan) ==
    LET rescaled_scan == GoesScan_rescale_to_2km(goes_scan)
    IN IF IsError(rescaled_scan) THEN rescaled_scan
       ELSE [value |-> rescaled_scan.bands[7].hot]

\* parse_scan_for_wildfire: only a ValueError of read_netcdfs is caught.
parse_scan_for_wildfire(filepaths) ==
    LET goes_scan == read_netcdfs(filepaths)
    IN IF IsError(goes_scan)
       THEN IF goes_scan.error = "ValueError" THEN None ELSE goes_scan
       ELSE LET prediction == predict_wildfires_goes(goes_scan)
            IN IF IsError(prediction) THEN prediction
               ELSE IF prediction.value
               THEN [value |-> [scan_time_utc |-> goes_scan.scan_time_utc,
                                region |-> goes_scan.region,
                                satellite |-> goes_scan.satellite]]
               ELSE None

\* list(filter(None, wildfires))
filter_none(results) ==
    LET Kept(result) == result # None
        kept == SelectSeq(results, Kept)
    IN [i \in 1..Len(kept) |-> kept[i].value]

\* The units a batch is made of: the files of one scan, complete or damaged,
\* or a single stray file.
UnitKinds ==
    {"fire", "calm", "short", "misshapen", "misnamed", "mistimed",
     "stray", "stray_mistimed", "other_region", "other_satellite"}

Unit(kind, scan_start) ==
    LET calm == ScanFiles("M1", "G17", scan_start, FALSE)
    IN CASE kind = "fire" -> ScanFiles("M1", "G17", scan_start, TRUE)
         [] kind = "calm" -> calm
         [] kind = "short" -> SubSeq(calm, 1, NumBands - 1)
         [] kind = "misshapen" ->
                [calm EXCEPT ![7] = File(7, "M1", "G17", scan_start, 2, FALSE)]
         [] kind = "misnamed" -> [calm EXCEPT ![3].name_form = "no_match"]
         [] kind = "mistimed" -> [calm EXCEPT ![3].name_form = "bad_timestamp"]
         [] kind = "stray" -> <<[calm[1] EXCEPT !.path_form = "no_match"]>>
         [] kind = "stray_mistimed" -> <<[calm[1] EXCEPT !.path_form = "bad_timestamp"]>>
         [] kind = "other_region" -> ScanFiles("M2", "G17", scan_start, TRUE)
         [] kind = "other_satellite" -> ScanFiles("M1", "G16", scan_start, TRUE)

Units == {Unit(kind, scan_start) : kind \in UnitKinds, scan_start \in {2, 3}}

RECURSIVE Concat(_)
Concat(seqs) == IF seqs = <<>> THEN <<>> ELSE Head(seqs) \o Concat(Tail(seqs))

Batches == {Concat(units) : units \in UNION {[1..n -> Units] : n \in 0..MaxUnits}}

FindIdle ==
    /\ find_filepaths = <<>> /\ find_groups = [idle |-> TRUE]
    /\ find_results = <<>> /\ find_out = [idle |-> TRUE]

InitFind ==
    /\ find_filepaths \in Batches
    /\ find_groups = Pending
    /\ find_results = <<>>
    /\ find_out = Pending

\* find_wildfires_goes groups the files; an error of the grouping ends it.
GroupFilepaths ==
    /\ find_groups = Pending
    /\ find_groups' = group_filepaths_into_scans(find_filepaths)
    /\ IF IsError(find_groups')
       THEN find_out' = find_groups' /\ find_results' = find_results
       ELSE /\ find_results' = [g \in 1..Len(find_groups'.value) |-> Pending]
            /\ find_out' = find_out
    /\ UNCHANGED <<find_filepaths, patch_vars, predict_vars, scan_vars, get_vars,
                   rescale_vars, extract_vars, filter_vars, name_vars, sequence_vars, flatten_vars, map_vars, persist_vars, download_vars, hot_vars>>

\* A worker of the pool runs parse_scan_for_wildfire on one group.
RunTask ==
    /\ find_out = Pending
    /\ \E g \in DOMAIN find_results :
          /\ find_results[g] = Pending
          /\ find_results' =
                [find_results EXCEPT ![g] = parse_scan_for_wildfire(find_groups.value[g])]
    /\ UNCHANGED <<find_filepaths, find_groups, find_out, patch_vars, predict_vars,
                   scan_vars, get_vars, rescale_vars, extract_vars, filter_vars, name_vars, sequence_vars, flatten_vars, map_vars, persist_vars, download_vars, hot_vars>>

\* imap_function collects the results in the order of the groups: the first
\* task that raised ends the call with its error, else the results that are
\* not None are returned.
Gather ==
    /\ find_out = Pending
    /\ find_groups # Pending
    /\ \/ /\ \A g \in DOMAIN find_results :
                find_results[g] # Pending /\ ~IsError(find_results[g])
          /\ find_out' = [value |-> filter_none(find_results)]
       \/ \E g \in DOMAIN find_results :
             /\ find_results[g] # Pending /\ IsError(find_results[g])
             /\ \A h \in 1..(g - 1) :
                   find_results[h] # Pending /\ ~IsError(find_results[h])
             /\ find_out' = find_results[g]
    /\ UNCHANGED <<find_filepaths, find_groups, find_results, patch_vars, predict_vars,
                   scan_vars, get_vars, rescale_vars, extract_vars, filter_vars, name_vars, sequence_vars, flatten_vars, map_vars, persist_vars, download_vars, hot_vars>>

NextFind == GroupFilepaths \/ RunTask \/ Gather

-----------------------------------------------------------------------------
(* Patch extraction: extract_patches_2d                                     *)

MaxSide == 4

\* An array of rows x cols in which every element holds its own position.
Array(rows, cols) ==
    [shape |-> <<rows, cols>>,
     data |-> [ij \in (0..(rows - 1)) \X (0..(cols - 1)) |-> ij]]

Min(a, b) == IF a <= b THEN a ELSE b

\* arr[r0:r1, c0:c1] for 0 <= r0 and 0 <= c0: a slice ends at the end of the
\* array when its stop lies beyond it.
Slice2d(arr, r0, r1, c0, c1) ==
    LET rows == IF Min(r1, arr.shape[1]) > r0 THEN Min(r1, arr.shape[1]) - r0 ELSE 0
        cols == IF Min(c1, arr.shape[2]) > c0 THEN Min(c1, arr.shape[2]) - c0 ELSE 0
    IN [shape |-> <<rows, cols>>,
        data |-> [ij \in (0..(rows - 1)) \X (0..(cols - 1)) |->
                     arr.data[<<r0 + ij[1], c0 + ij[2]>>]]]

\* A slip that runs the column loop outside the row loop.
extract_patches_2d_column_major(arr, height, width, stride) ==
    LET height_indices == get_patch_indices(arr.shape[1], height, stride)
        width_indices == get_patch_indices(arr.shape[2], width, stride)
    IN IF IsError(height_indices) THEN height_indices
       ELSE IF IsError(width_indices) THEN width_indices
       ELSE LET nh == Len(height_indices.value)
                nw == Len(width_indices.value)
            IN [value |-> [p \in 1..(nh * nw) |->
                   LET height_idx == height_indices.value[((p - 1) % nh) + 1]
                       width_idx == width_indices.value[((p - 1) \div nh) + 1]
                   IN Slice2d(arr, height_idx, height_idx + height,
                              width_idx, width_idx + width)]]

\* extract_patches_2d: the row indices, then the column indices, then one
\* slice per pair, the column loop inside the row loop.
extract_patches_2d(arr, height, width, stride) ==
    LET height_indices == get_patch_indices(arr.shape[1], height, stride)
        width_indices == get_patch_indices(arr.shape[2], width, stride)
    IN IF IsError(height_indices) THEN height_indices
       ELSE IF IsError(width_indices) THEN width_indices
       ELSE LET nh == Len(height_indices.value)
                nw == Len(width_indices.value)
            IN [value |-> [p \in 1..(nh * nw) |->
                   LET height_idx == height_indices.value[((p - 1) \div nw) + 1]
                       width_idx == width_indices.value[((p - 1) % nw) + 1]
                   IN Slice2d(arr, height_idx, height_idx + height,
                              width_idx, width_idx + width)]]

ExtractIdle == extract_args = [idle |-> TRUE] /\ extract_out = Pending

InitExtract ==
    /\ \E rows \in 1..MaxSide, cols \in 1..MaxSide, height \in 1..MaxSide,
          width \in 1..MaxSide, stride \in 0..MaxStride :
          extract_args = [arr |-> Array(rows, cols), height |-> height,
                          width |-> width, stride |-> stride]
    /\ extract_out = Pending

CallExtractPatches2d ==
    /\ extract_out = Pending
    /\ NotIdle(extract_args)
    /\ extract_out' = extract_patches_2d(extract_args.arr, extract_args.height,
                                         extract_args.width, extract_args.stride)
    /\ UNCHANGED <<extract_args, patch_vars, predict_vars, scan_vars, get_vars,
                   rescale_vars, find_vars, filter_vars, name_vars, sequence_vars, flatten_vars, map_vars, persist_vars, download_vars, hot_vars>>

NextExtract == CallExtractPatches2d

-----------------------------------------------------------------------------
(* Quality filter: GoesBand.filter_bad_pixels                               *)

MaxFilterPixels == 2

\* np.nan as a pixel value; any other pixel value v is [value |-> v].
NaN == [nan |-> TRUE]

\* The quality flags of a pixel: 0 good, 1 conditionally usable, 2 out of
\* range, 3 no value.
QualityFlags == 0..3

\* A band's dataset of 1 x n pixels with the given radiances and quality
\* flags and a scalar calibration variable.
FlaggedDataset(band_id, n, rad, dqf) ==
    [Rad |-> rad, DQF |-> dqf, kappa0 |-> [value |-> 3]] @@
    Dataset(band_id, "M1", "G17", 2, 1, n, NativeWidth(band_id))

\* dataset.DQF.isin(values): per pixel.
isin(flags, values) ==
    [ij \in DOMAIN flags |-> flags[ij] # NaN /\ flags[ij].value \in values]

\* xarray's Dataset.where(cond): a new dataset in which every data variable
\* keeps its value where cond holds and is NaN elsewhere; a variable without
\* the dimensions of cond is broadcast to them. Attributes are kept.
where(dataset, cond) ==
    [dataset EXCEPT
        !.Rad = [ij \in DOMAIN cond |-> IF cond[ij] THEN dataset.Rad[ij] ELSE NaN],
        !.DQF = [ij \in DOMAIN cond |-> IF cond[ij] THEN dataset.DQF[ij] ELSE NaN],
        !.kappa0 = [ij \in DOMAIN cond |-> IF cond[ij] THEN dataset.kappa0 ELSE NaN]]

\* A slip that keeps only the pixels flagged 0.
filter_bad_pixels_good_only(dataset) == where(dataset, isin(dataset.DQF, {0}))

\* filter_bad_pixels(dataset)
filter_bad_pixels(dataset) == where(dataset, isin(dataset.DQF, {0, 1}))

\* GoesBand.filter_bad_pixels: the band returned, and the band it was called
\* on as the call leaves it.
GoesBand_filter_bad_pixels(band) ==
    [out |-> GoesBand(filter_bad_pixels(band)), self |-> band]

FilterIdle == fb_band = [idle |-> TRUE] /\ fb_out = Pending

InitFilter ==
    /\ \E band_id \in {2, 7}, n \in 1..MaxFilterPixels :
          \E rad \in [{0} \X (0..(n - 1)) -> {[value |-> 5], [value |-> 6]}],
             dqf \in [{0} \X (0..(n - 1)) -> {[value |-> q] : q \in QualityFlags}] :
             fb_band = FlaggedDataset(band_id, n, rad, dqf)
    /\ fb_out = Pending

CallFilterBadPixels ==
    /\ fb_out = Pending
    /\ NotIdle(fb_band)
    /\ LET done == GoesBand_filter_bad_pixels(fb_band)
       IN fb_out' = done.out /\ fb_band' = done.self
    /\ UNCHANGED <<patch_vars, predict_vars, scan_vars, get_vars, rescale_vars,
                   find_vars, extract_vars, name_vars, sequence_vars, flatten_vars, map_vars, persist_vars, download_vars, hot_vars>>

NextFilter == CallFilterBadPixels

-----------------------------------------------------------------------------
(* Filename codec: parse_filename, GoesBand.to_netcdf                       *)

DigitChars == {"0", "1", "2", "3", "4", "5", "6", "7", "8", "9"}

\* int() of one digit character.
DigitValue(c) ==
    CASE c = "0" -> 0 [] c = "1" -> 1 [] c = "2" -> 2 [] c = "3" -> 3 [] c = "4" -> 4
      [] c = "5" -> 5 [] c = "6" -> 6 [] c = "7" -> 7 [] c = "8" -> 8 [] c = "9" -> 9
      [] OTHER -> 0

DigitChar(d) ==
    CASE d = 0 -> "0" [] d = 1 -> "1" [] d = 2 -> "2" [] d = 3 -> "3" [] d = 4 -> "4"
      [] d = 5 -> "5" [] d = 6 -> "6" [] d = 7 -> "7" [] d = 8 -> "8" [] d = 9 -> "9"

IsDigits(text) == \A i \in 1..Len(text) : text[i] \in DigitChars

\* int(text) for a text of digits.
RECURSIVE int(_)
int(text) ==
    IF text = <<>> THEN 0
    ELSE 10 * int(SubSeq(text, 1, Len(text) - 1)) + DigitValue(text[Len(text)])

\* The digits of n, zero-padded to the given width: strftime's %j and %H.
RECURSIVE zero_padded(_, _)
zero_padded(n, width) ==
    IF width = 0 THEN <<>>
    ELSE Append(zero_padded(n \div 10, width - 1), DigitChar(n % 10))

\* str(n) for n >= 0.
RECURSIVE str(_)
str(n) == IF n < 10 THEN <<DigitChar(n)>> ELSE Append(str(n \div 10), DigitChar(n % 10))

\* The file names of the model. A name is the text of its four variable
\* parts within OR_ABI-L1b-Rad{region}-M6C{band}_{satellite}_s{start}_e.._c...nc,
\* or a name without that frame. A start is a timestamp of digits (year, day
\* of year, hour, and the minute, second and fraction that follow), or text
\* that is no timestamp.
RegionTexts == {<<"F">>, <<"C">>, <<"M", "1">>, <<"M", "2">>, <<"M", "3">>, <<"X">>, <<>>}

BandTexts ==
    {<<"0", "1">>, <<"1", "6">>, <<"0", "0">>, <<"1", "7">>, <<"9", "9">>, <<"7">>,
     <<"1", "A">>}

SatelliteTexts == {<<"G", "1", "6">>, <<"G", "1", "7">>, <<"H", "1", "7">>}

StartTexts ==
    [year : {<<"2", "0", "1", "9">>}, doy : {<<"0", "0", "5">>, <<"3", "3", "5">>},
     hour : {<<"0", "7">>, <<"2", "0">>}, timestamp : {TRUE}]
    \cup {[timestamp |-> FALSE]}

NameTexts ==
    [framed : {TRUE}, region : RegionTexts, band : BandTexts,
     satellite : SatelliteTexts, start : StartTexts]
    \cup {[framed |-> FALSE]}

\* re.search(r"OR_ABI-L1b-Rad(.*)-M\dC(\d{2})_(G\d{2})_s(.*)_e.*_c.*.nc", name):
\* any region, two digits for the band, G and two digits for the satellite,
\* any start.
regex_matches(text) ==
    /\ text.framed
    /\ Len(text.band) = 2 /\ IsDigits(text.band)
    /\ Len(text.satellite) = 3 /\ text.satellite[1] = "G"
    /\ IsDigits(Tail(text.satellite))

\* datetime.strptime(started_at, "%Y%j%H%M%S%f")
strptime(start) ==
    IF ~start.timestamp THEN Raise("ValueError")
    ELSE [value |-> [year |-> int(start.year), doy |-> int(start.doy),
                     hour |-> int(start.hour)]]

\* Which of the three outcomes parse_filename has on a name.
name_form(text) ==
    IF ~regex_matches(text) THEN "no_match"
    ELSE IF IsError(strptime(text.start)) THEN "bad_timestamp"
    ELSE "match"

\* The dataset that a file of this name holds: its dataset_name is the name.
NamedDataset(text) ==
    IF name_form(text) = "match"
    THEN [name_form |-> "match", region |-> text.region, band_id |-> int(text.band),
          satellite |-> text.satellite, scan_start |-> strptime(text.start).value,
          text |-> text]
    ELSE [name_form |-> name_form(text), region |-> <<>>, band_id |-> 0,
          satellite |-> <<>>, scan_start |-> 0, text |-> text]

\* A slip that writes the bucket name where the code writes self.satellite.
to_netcdf_bucket(band, directory) ==
    IF band.region = <<>> THEN Raise("IndexError")
    ELSE [value |-> <<directory, <<"noaa-goes">> \o Tail(band.satellite),
                      <<"ABI-L1b-Rad", band.region[1]>>,
                      str(band.scan_start.year),
                      zero_padded(band.scan_start.doy, 3),
                      zero_padded(band.scan_start.hour, 2),
                      band.text>>]

\* GoesBand.to_netcdf: the components that os.path.join puts together.
to_netcdf(band, directory) ==
    IF band.region = <<>> THEN Raise("IndexError")
    ELSE [value |-> <<directory, band.satellite,
                      <<"ABI-L1b-Rad", band.region[1]>>,
                      str(band.scan_start.year),
                      zero_padded(band.scan_start.doy, 3),
                      zero_padded(band.scan_start.hour, 2),
                      band.text>>]

NameIdle == nm_text = [idle |-> TRUE] /\ nm_parsed = Pending /\ nm_path = Pending

InitName == nm_text \in NameTexts /\ nm_parsed = Pending /\ nm_path = Pending

ParseFilename ==
    /\ NotIdle(nm_text)
    /\ nm_parsed = Pending
    /\ nm_parsed' = parse_filename(dataset_name(NamedDataset(nm_text)))
    /\ UNCHANGED <<nm_text, nm_path, patch_vars, predict_vars, scan_vars, get_vars,
                   rescale_vars, find_vars, extract_vars, filter_vars, sequence_vars, flatten_vars, map_vars, persist_vars, download_vars, hot_vars>>

\* read_netcdf of a file of this name, then to_netcdf of the band.
ReadAndPersist ==
    /\ NotIdle(nm_text)
    /\ nm_path = Pending
    /\ LET band == GoesBand(NamedDataset(nm_text))
       IN nm_path' = IF IsError(band) THEN band ELSE to_netcdf(band, <<"directory">>)
    /\ UNCHANGED <<nm_text, nm_parsed, patch_vars, predict_vars, scan_vars, get_vars,
                   rescale_vars, find_vars, extract_vars, filter_vars, sequence_vars, flatten_vars, map_vars, persist_vars, download_vars, hot_vars>>

NextName == ParseFilename \/ ReadAndPersist

-----------------------------------------------------------------------------
(* Sequences of scans: wildfire/goes/sequence.py                            *)

MaxScans == 3

\* isinstance(scan, GoesScan)
IsGoesScan(item) == "bands" \in DOMAIN item

\* {scan.scan_time_utc: scan for scan in scans}[key]: a later scan replaces an
\* earlier one of the same scan time.
ParsedScan(scans, key) ==
    LET last == CHOOSE i \in 1..Len(scans) :
                    /\ scans[i].scan_time_utc = key
                    /\ \A j \in (i + 1)..Len(scans) : scans[j].scan_time_utc # key
    IN scans[last]

\* A slip that leaves the keys in the order in which the scan times first occur
\* in the list.
RECURSIVE sequence_keys_unsorted(_)
sequence_keys_unsorted(scans) ==
    IF scans = <<>> THEN <<>>
    ELSE LET Later(scan) == scan.scan_time_utc # Head(scans).scan_time_utc
         IN <<Head(scans).scan_time_utc>>
                \o sequence_keys_unsorted(SelectSeq(Tail(scans), Later))

\* sorted(parsed.keys()): the order in which _parse_input inserts the scan
\* times into the dictionary it returns.
sequence_keys(scans) == unique({scans[i].scan_time_utc : i \in 1..Len(scans)})

\* GoesSequence.__init__: _assert_input_goes_scan, the dictionary of scans by
\* scan time with sorted keys, then satellite and region of the first scan of
\* the list and the least and greatest key.
GoesSequence(scans) ==
    IF \E i \in 1..Len(scans) : ~IsGoesScan(scans[i]) THEN Raise("ValueError")
    ELSE IF scans = <<>> THEN Raise("IndexError")
    ELSE LET times == {scans[i].scan_time_utc : i \in 1..Len(scans)}
         IN [keys |-> sequence_keys(scans),
             scans |-> [key \in times |-> ParsedScan(scans, key)],
             satellite |-> scans[1].satellite,
             region |-> scans[1].region,
             first_scan_utc |-> CHOOSE t \in times : \A u \in times : t <= u,
             last_scan_utc |-> CHOOSE t \in times : \A u \in times : u <= t]

\* The items a list is drawn from: scans of one satellite and region at two
\* times, a scan of another region, a scan of another satellite, and a band,
\* which is not a GoesScan.
SequenceItems ==
    {GoesScan(CompleteScan("M1", "G17", 2)), GoesScan(CompleteScan("M1", "G17", 3)),
     GoesScan(CompleteScan("M2", "G17", 2)), GoesScan(CompleteScan("M1", "G16", 4)),
     Band(1, "M1", "G17", 2)}

Reorderings(seq) ==
    {[i \in 1..Len(seq) |-> seq[p[i]]] :
        p \in {q \in [1..Len(seq) -> 1..Len(seq)] :
                  \A i, j \in 1..Len(seq) : q[i] = q[j] => i = j}}

SequenceIdle ==
    /\ sq_scans = <<>> /\ sq_out = [idle |-> TRUE]
    /\ sq_permuted = Pending /\ sq_permuted_out = Pending

InitSequence ==
    /\ sq_scans \in UNION {[1..n -> SequenceItems] : n \in 0..MaxScans}
    /\ sq_out = Pending
    /\ sq_permuted = Pending
    /\ sq_permuted_out = Pending

ConstructSequence ==
    /\ sq_out = Pending
    /\ sq_out' = GoesSequence(sq_scans)
    /\ UNCHANGED <<sq_scans, sq_permuted, sq_permuted_out, patch_vars, predict_vars,
                   scan_vars, get_vars, rescale_vars, find_vars, extract_vars,
                   filter_vars, name_vars, flatten_vars, map_vars, persist_vars, download_vars, hot_vars>>

\* The caller has the same scans in another order.
Permute ==
    /\ NotIdle(sq_out)
    /\ sq_permuted = Pending
    /\ \E order \in Reorderings(sq_scans) : sq_permuted' = [list |-> order]
    /\ UNCHANGED <<sq_scans, sq_out, sq_permuted_out, patch_vars, predict_vars,
                   scan_vars, get_vars, rescale_vars, find_vars, extract_vars,
                   filter_vars, name_vars, flatten_vars, map_vars, persist_vars, download_vars, hot_vars>>

ConstructPermuted ==
    /\ sq_permuted # Pending
    /\ sq_permuted_out = Pending
    /\ sq_permuted_out' = GoesSequence(sq_permuted.list)
    /\ UNCHANGED <<sq_scans, sq_out, sq_permuted, patch_vars, predict_vars,
                   scan_vars, get_vars, rescale_vars, find_vars, extract_vars,
                   filter_vars, name_vars, flatten_vars, map_vars, persist_vars, download_vars, hot_vars>>

NextSequence == ConstructSequence \/ Permute \/ ConstructPermuted

-----------------------------------------------------------------------------
(* Flattening: wildfire/multiprocessing.py flatten_array                    *)

MaxLists == 3
MaxItems == 2

Item(n) == [item |-> n]

Items == {Item(n) : n \in 1..MaxItems}

\* The lists of at most MaxItems items.
ItemLists == {GlobResult(l) : l \in UNION {[1..n -> Items] : n \in 0..MaxItems}}

\* Lists of items and lists of lists of items.
NestedLists ==
    UNION {[1..n -> Items] : n \in 0..MaxLists}
        \cup UNION {[1..n -> ItemLists] : n \in 0..MaxLists}

FlattenIdle == fl_arr = <<>> /\ fl_numpy = "idle" /\ fl_out = [idle |-> TRUE]

InitFlatten ==
    /\ fl_arr \in NestedLists
    /\ fl_numpy \in NumpyBuilds
    /\ fl_out = Pending

CallFlattenArray ==
    /\ fl_out = Pending
    /\ fl_out' = flatten_array(fl_arr, fl_numpy)
    /\ UNCHANGED <<fl_arr, fl_numpy, patch_vars, predict_vars, scan_vars, get_vars,
                   rescale_vars, find_vars, extract_vars, filter_vars, name_vars,
                   sequence_vars, map_vars, persist_vars, download_vars, hot_vars>>

NextFlatten == CallFlattenArray

-----------------------------------------------------------------------------
(* Parallel map: wildfire/multiprocessing.py and wildfire/goes/utilities.py *)

\* The function mapped: it takes mp_arity positional arguments and its value
\* tells the arguments it was called with.
function(arity, args) ==
    IF Len(args) = arity THEN [value |-> [called_with |-> args]] ELSE Raise("TypeError")

\* client.map(function, *iterables): one task per position, up to the end of
\* the shortest iterable, with the items of all iterables at that position.
client_map(iterables) ==
    IF iterables = <<>> THEN <<>>
    ELSE LET lengths == {Len(iterables[i].files) : i \in 1..Len(iterables)}
             shortest == CHOOSE n \in lengths : \A m \in lengths : n <= m
         IN [j \in 1..shortest |-> [i \in 1..Len(iterables) |-> iterables[i].files[j]]]

\* wildfire.multiprocessing.map_function up to client.map: np.shape is taken
\* for the log line first; one-dimensional function_args are wrapped in a list.
dask_submit(function_args, numpy) ==
    LET shape == ndim(function_args, numpy)
    IN IF IsError(shape) THEN shape
       ELSE IF shape.value = 1 THEN [list |-> client_map(<<GlobResult(function_args)>>)]
       ELSE [list |-> client_map(function_args)]

\* wildfire.goes.utilities.map_function up to pool.map: one task per element.
pool_submit(function_args) ==
    [list |-> [i \in 1..Len(function_args) |-> <<function_args[i]>>]]

\* client.gather(futures) and the value of pool.map: the results in the order
\* of the tasks, or the error of the first task that failed.
gather(results) ==
    LET ResultOf(task) ==
            results[CHOOSE k \in 1..Len(results) : results[k].task = task].result
        ordered == [task \in 1..Len(results) |-> ResultOf(task)]
    IN IF \E task \in 1..Len(ordered) : IsError(ordered[task])
       THEN ordered[CHOOSE task \in 1..Len(ordered) :
                       /\ IsError(ordered[task])
                       /\ \A earlier \in 1..(task - 1) : ~IsError(ordered[earlier])]
       ELSE [value |-> [task \in 1..Len(ordered) |-> ordered[task].value]]

\* `flatten` is the boolean argument, and calling it raises TypeError.
pool_return(worker_results, flatten) ==
    IF IsError(worker_results) THEN worker_results
    ELSE IF flatten THEN Raise("TypeError")
    ELSE worker_results

MapIdle ==
    /\ mp_impl = "idle" /\ mp_numpy = "idle" /\ mp_args = <<>> /\ mp_arity = 0
    /\ mp_flatten = FALSE /\ mp_tasks = [idle |-> TRUE] /\ mp_results = <<>>
    /\ mp_out = [idle |-> TRUE]

InitMap ==
    /\ mp_impl \in {"dask", "pool"}
    /\ \/ mp_impl = "dask" /\ mp_numpy \in NumpyBuilds /\ mp_flatten = FALSE
       \/ mp_impl = "pool" /\ mp_numpy = "unused" /\ mp_flatten \in BOOLEAN
    /\ mp_args \in NestedLists
    /\ mp_arity \in 1..2
    /\ mp_tasks = Pending
    /\ mp_results = <<>>
    /\ mp_out = Pending

\* The call up to the submission of the tasks.
Submit ==
    /\ mp_tasks = Pending
    /\ LET submitted == IF mp_impl = "dask" THEN dask_submit(mp_args, mp_numpy)
                        ELSE pool_submit(mp_args)
       IN /\ mp_tasks' = submitted
          /\ mp_out' = IF IsError(submitted) THEN submitted ELSE mp_out
    /\ UNCHANGED <<mp_impl, mp_numpy, mp_args, mp_arity, mp_flatten, mp_results,
                   patch_vars, predict_vars, scan_vars, get_vars, rescale_vars,
                   find_vars, extract_vars, filter_vars, name_vars, sequence_vars,
                   flatten_vars, persist_vars, download_vars, hot_vars>>

\* A worker finishes one of the tasks not yet finished, whichever.
Finish ==
    /\ mp_out = Pending
    /\ "list" \in DOMAIN mp_tasks
    /\ \E task \in 1..Len(mp_tasks.list) :
          /\ \A k \in 1..Len(mp_results) : mp_results[k].task # task
          /\ mp_results' = Append(mp_results,
                                  [task |-> task,
                                   result |-> function(mp_arity, mp_tasks.list[task])])
    /\ UNCHANGED <<mp_impl, mp_numpy, mp_args, mp_arity, mp_flatten, mp_tasks, mp_out,
                   patch_vars, predict_vars, scan_vars, get_vars, rescale_vars,
                   find_vars, extract_vars, filter_vars, name_vars, sequence_vars,
                   flatten_vars, persist_vars, download_vars, hot_vars>>

\* All tasks have finished: the results are collected and returned.
GatherResults ==
    /\ mp_out = Pending
    /\ "list" \in DOMAIN mp_tasks
    /\ Len(mp_results) = Len(mp_tasks.list)
    /\ mp_out' = IF mp_impl = "dask" THEN gather(mp_results)
                 ELSE pool_return(gather(mp_results), mp_flatten)
    /\ UNCHANGED <<mp_impl, mp_numpy, mp_args, mp_arity, mp_flatten, mp_tasks,
                   mp_results, patch_vars, predict_vars, scan_vars, get_vars,
                   rescale_vars, find_vars, extract_vars, filter_vars, name_vars,
                   sequence_vars, flatten_vars, persist_vars, download_vars, hot_vars>>

NextMap == Submit \/ Finish \/ GatherResults

-----------------------------------------------------------------------------
(* Local file layout: GoesScan.to_netcdf, download_file, list_local_files   *)

\* The name of the file of one band of a scan.
BandText(scan, band_id) ==
    [framed |-> TRUE, region |-> scan.region, band |-> zero_padded(band_id, 2),
     satellite |-> scan.satellite, start |-> scan.start]

SATELLITE_LONG_HAND(satellite_short) == <<"noaa-goes">> \o Tail(satellite_short)

\* BASE_PATTERN_FORMAT without its last component: the directory in which
\* the files of a region and an hour are looked for.
BASE_PATTERN_FORMAT(directory, region, year, day_of_year, hour) ==
    <<directory, <<"ABI-L1b-Rad", region[1]>>, year, day_of_year, hour>>

\* The object of a band file in the remote store: the bucket of its
\* satellite, then the layout of BASE_PATTERN_FORMAT.
S3Filepath(text) ==
    Append(BASE_PATTERN_FORMAT(SATELLITE_LONG_HAND(text.satellite), text.region,
                               text.start.year, text.start.doy, text.start.hour),
           text)

\* s3fs.core.split_path: the bucket, and the key that follows it.
split_path(s3_filepath) == [bucket |-> Head(s3_filepath), key |-> Tail(s3_filepath)]

LOCAL_FILEPATH_FORMAT(local_directory, s3_key) == <<local_directory>> \o s3_key

\* download_file: the local path at which the object is stored.
download_file(s3_filepath, local_directory) ==
    LOCAL_FILEPATH_FORMAT(local_directory, split_path(s3_filepath).key)

\* GoesScan.to_netcdf: the path of every band, from band_1 to band_16.
GoesScan_to_netcdf(scan, directory) ==
    [band_id \in 1..NumBands |->
        to_netcdf(GoesBand(NamedDataset(BandText(scan, band_id))), directory).value]

PersistedScans ==
    [region : {<<"F">>, <<"C">>, <<"M", "1">>, <<"M", "2">>},
     satellite : {<<"G", "1", "6">>, <<"G", "1", "7">>},
     start : {start \in StartTexts : start.timestamp}]

PersistIdle ==
    /\ ps_scan = [idle |-> TRUE] /\ ps_written = Pending
    /\ ps_downloaded = <<>> /\ ps_searched = Pending

InitPersist ==
    /\ ps_scan \in PersistedScans
    /\ ps_written = Pending
    /\ ps_downloaded = <<>>
    /\ ps_searched = Pending

PersistScan ==
    /\ NotIdle(ps_scan)
    /\ ps_written = Pending
    /\ ps_written' = [value |-> GoesScan_to_netcdf(ps_scan, <<"directory">>)]
    /\ UNCHANGED <<ps_scan, ps_downloaded, ps_searched, patch_vars, predict_vars,
                   scan_vars, get_vars, rescale_vars, find_vars, extract_vars,
                   filter_vars, name_vars, sequence_vars, flatten_vars, map_vars, download_vars, hot_vars>>

\* The next band of the scan is downloaded from the remote store.
DownloadBand ==
    /\ NotIdle(ps_scan)
    /\ Len(ps_downloaded) < NumBands
    /\ ps_downloaded' =
          Append(ps_downloaded,
                 download_file(S3Filepath(BandText(ps_scan, Len(ps_downloaded) + 1)),
                               <<"directory">>))
    /\ UNCHANGED <<ps_scan, ps_written, ps_searched, patch_vars, predict_vars,
                   scan_vars, get_vars, rescale_vars, find_vars, extract_vars,
                   filter_vars, name_vars, sequence_vars, flatten_vars, map_vars, download_vars, hot_vars>>

\* list_local_files decides where to look for the files of the scan.
SearchLocal ==
    /\ NotIdle(ps_scan)
    /\ ps_searched = Pending
    /\ ps_searched' = [value |-> BASE_PATTERN_FORMAT(<<"directory">>, ps_scan.region,
                                                     ps_scan.start.year, ps_scan.start.doy,
                                                     ps_scan.start.hour)]
    /\ UNCHANGED <<ps_scan, ps_written, ps_downloaded, patch_vars, predict_vars,
                   scan_vars, get_vars, rescale_vars, find_vars, extract_vars,
                   filter_vars, name_vars, sequence_vars, flatten_vars, map_vars, download_vars, hot_vars>>

NextPersist == PersistScan \/ DownloadBand \/ SearchLocal

-----------------------------------------------------------------------------
(* Downloading: download_files called twice with the same arguments         *)

DownloadIdle ==
    /\ dl_disk = {} /\ dl_remote = {}
    /\ dl_first = [idle |-> TRUE] /\ dl_second = [idle |-> TRUE]

InitDownload ==
    /\ dl_disk \in Stores
    /\ dl_remote \in Stores
    /\ dl_first = Pending
    /\ dl_second = Pending

\* download_files(local_directory, "noaa-goes17", "M1", start_time): what the
\* call returned or raised, the files it added to the local directory, and
\* the local files before it.
CallDownloadFiles ==
    /\ dl_first = Pending
    /\ LET got == download_files(dl_disk, dl_remote, "noaa-goes17", "M1", 2)
       IN /\ dl_first' = [out |-> got.out, downloaded |-> got.disk \ dl_disk,
                          before |-> dl_disk]
          /\ dl_disk' = got.disk
    /\ UNCHANGED <<dl_remote, dl_second, patch_vars, predict_vars, scan_vars, get_vars,
                   rescale_vars, find_vars, extract_vars, filter_vars, name_vars,
                   sequence_vars, flatten_vars, map_vars, persist_vars, hot_vars>>

CallDownloadFilesAgain ==
    /\ dl_first # Pending /\ NotIdle(dl_first)
    /\ dl_second = Pending
    /\ LET got == download_files(dl_disk, dl_remote, "noaa-goes17", "M1", 2)
       IN /\ dl_second' = [out |-> got.out, downloaded |-> got.disk \ dl_disk,
                           before |-> dl_disk]
          /\ dl_disk' = got.disk
    /\ UNCHANGED <<dl_remote, dl_first, patch_vars, predict_vars, scan_vars, get_vars,
                   rescale_vars, find_vars, extract_vars, filter_vars, name_vars,
                   sequence_vars, flatten_vars, map_vars, persist_vars, hot_vars>>

NextDownload == CallDownloadFiles \/ CallDownloadFilesAgain

-----------------------------------------------------------------------------
(* Hot pixels: is_hot_pixel, normalize, predict_wildfires_goes              *)

NumHotPixels == 12

HasNaN(data) == \E i \in 1..Len(data) : data[i] = NaN

\* numpy's a - b on two arrays of one shape: NaN wherever an operand is NaN.
subtract(a, b) ==
    [i \in 1..Len(a) |->
        IF a[i] = NaN \/ b[i] = NaN THEN NaN ELSE [value |-> a[i].value - b[i].value]]

RECURSIVE SumOf(_)
SumOf(values) == IF values = <<>> THEN 0 ELSE Head(values) + SumOf(Tail(values))

\* (values - mean) / std > threshold, in whole numbers: with n values of sum
\* S and d[i] = n * values[i] - S, the i-th normalised value exceeds the
\* threshold when d[i] > 0 and n * d[i]^2 > threshold^2 * sum of d^2. A
\* standard deviation of 0 makes every normalised value NaN.
exceeds(values, threshold) ==
    LET n == Len(values)
        d == [i \in 1..n |-> n * values[i] - SumOf(values)]
        squares == SumOf([i \in 1..n |-> d[i] * d[i]])
    IN [i \in 1..n |-> d[i] > 0 /\ n * d[i] * d[i] > threshold * threshold * squares]

\* A slip that leaves the NaN pixels out of the mean and the standard
\* deviation, as nanmean and nanstd do.
normalize_gt_skipna(data, threshold) ==
    LET IsNumber(pixel) == pixel # NaN
        numbers == SelectSeq(data, IsNumber)
        above == exceeds([i \in 1..Len(numbers) |-> numbers[i].value], threshold)
        Rank(i) == Cardinality({j \in 1..i : data[j] # NaN})
    IN [i \in 1..Len(data) |-> IF data[i] = NaN THEN FALSE ELSE above[Rank(i)]]

\* normalize(data) > threshold on an ndarray: data.mean() and data.std() are
\* NaN when a value is NaN, so that every normalised value is NaN and no
\* comparison with it is true.
normalize_gt(data, threshold) ==
    IF HasNaN(data) THEN [i \in 1..Len(data) |-> FALSE]
    ELSE exceeds([i \in 1..Len(data) |-> data[i].value], threshold)

is_hot_pixel(brightness_temperature_3_89, brightness_temperature_11_19) ==
    LET condition_1 == normalize_gt(brightness_temperature_3_89, 2)
        condition_2 == normalize_gt(subtract(brightness_temperature_3_89,
                                             brightness_temperature_11_19), 3)
    IN [i \in 1..Len(condition_1) |-> condition_1[i] /\ condition_2[i]]

\* An image of NumHotPixels pixels, all of the base value but the first
\* three.
Image(first, second, third, base) ==
    [i \in 1..NumHotPixels |->
        IF i = 1 THEN first ELSE IF i = 2 THEN second ELSE IF i = 3 THEN third
        ELSE [value |-> base]]

Band7Images ==
    {Image(first, second, third, 300) :
        first \in {[value |-> 300], [value |-> 400], NaN},
        second \in {[value |-> 300], [value |-> 400], NaN},
        third \in {[value |-> 300], [value |-> 290]}}

Band14Images ==
    {Image(first, second, [value |-> 280], 280) :
        first \in {[value |-> 280], [value |-> 270]},
        second \in {[value |-> 280], NaN}}

Mask(data) == [shape |-> <<1, Len(data)>>, data |-> data]

HotIdle ==
    /\ hot_bt7 = <<>> /\ hot_bt14 = <<>> /\ hot_other = [idle |-> TRUE]
    /\ hot_is_hot = Pending /\ hot_prediction = Pending /\ hot_report = Pending

InitHot ==
    /\ hot_bt7 \in Band7Images
    /\ hot_bt14 \in Band14Images
    /\ hot_other \in [is_cloud : BOOLEAN, is_water : BOOLEAN, is_night : BOOLEAN]
    /\ hot_is_hot = Pending
    /\ hot_prediction = Pending
    /\ hot_report = Pending

\* get_model_features_goes: the hot mask from bands 7 and 14.
CallIsHotPixel ==
    /\ NotIdle(hot_other)
    /\ hot_is_hot = Pending
    /\ hot_is_hot' = Mask(is_hot_pixel(hot_bt7, hot_bt14))
    /\ UNCHANGED <<hot_bt7, hot_bt14, hot_other, hot_prediction, hot_report,
                   patch_vars, predict_vars, scan_vars, get_vars, rescale_vars,
                   find_vars, extract_vars, filter_vars, name_vars, sequence_vars,
                   flatten_vars, map_vars, persist_vars, download_vars>>

\* predict_wildfires_goes: predict on the hot mask and the other three.
CallPredictWildfires ==
    /\ hot_is_hot # Pending
    /\ hot_prediction = Pending
    /\ LET Constant(b) == Mask([i \in 1..NumHotPixels |-> b])
       IN hot_prediction' = predict([is_hot |-> hot_is_hot,
                                     is_cloud |-> Constant(hot_other.is_cloud),
                                     is_water |-> Constant(hot_other.is_water),
                                     is_night |-> Constant(hot_other.is_night)]).out
    /\ UNCHANGED <<hot_bt7, hot_bt14, hot_other, hot_is_hot, hot_report,
                   patch_vars, predict_vars, scan_vars, get_vars, rescale_vars,
                   find_vars, extract_vars, filter_vars, name_vars, sequence_vars,
                   flatten_vars, map_vars, persist_vars, download_vars>>

\* parse_scan_for_wildfire: a detection when the mean of the mask is above 0.
ReportWildfire ==
    /\ hot_prediction # Pending
    /\ hot_report = Pending
    /\ hot_report' = IF \E i \in 1..NumHotPixels : hot_prediction.data[i]
                     THEN [wildfire |-> TRUE] ELSE None
    /\ UNCHANGED <<hot_bt7, hot_bt14, hot_other, hot_is_hot, hot_prediction,
                   patch_vars, predict_vars, scan_vars, get_vars, rescale_vars,
                   find_vars, extract_vars, filter_vars, name_vars, sequence_vars,
                   flatten_vars, map_vars, persist_vars, download_vars>>

NextHot == CallIsHotPixel \/ CallPredictWildfires \/ ReportWildfire

-----------------------------------------------------------------------------
(* Specifications                                                           *)

InitSpecPatch == InitPatch /\ PredictIdle /\ ScanIdle /\ GetIdle /\ RescaleIdle /\ FindIdle /\ ExtractIdle /\ FilterIdle /\ NameIdle /\ SequenceIdle /\ FlattenIdle /\ MapIdle /\ PersistIdle /\ DownloadIdle /\ HotIdle

SpecPatch == InitSpecPatch /\ [][NextPatch]_vars

InitSpecPredict == InitPredict /\ PatchIdle /\ ScanIdle /\ GetIdle /\ RescaleIdle /\ FindIdle /\ ExtractIdle /\ FilterIdle /\ NameIdle /\ SequenceIdle /\ FlattenIdle /\ MapIdle /\ PersistIdle /\ DownloadIdle /\ HotIdle

SpecPredict == InitSpecPredict /\ [][NextPredict]_vars

InitSpecScan == InitScan /\ PatchIdle /\ PredictIdle /\ GetIdle /\ RescaleIdle /\ FindIdle /\ ExtractIdle /\ FilterIdle /\ NameIdle /\ SequenceIdle /\ FlattenIdle /\ MapIdle /\ PersistIdle /\ DownloadIdle /\ HotIdle

SpecScan == InitSpecScan /\ [][NextScan]_vars

InitSpecGet == InitGet /\ PatchIdle /\ PredictIdle /\ ScanIdle /\ RescaleIdle /\ FindIdle /\ ExtractIdle /\ FilterIdle /\ NameIdle /\ SequenceIdle /\ FlattenIdle /\ MapIdle /\ PersistIdle /\ DownloadIdle /\ HotIdle

SpecGet == InitSpecGet /\ [][NextGet]_vars

InitSpecRescale == InitRescale /\ PatchIdle /\ PredictIdle /\ ScanIdle /\ GetIdle /\ FindIdle /\ ExtractIdle /\ FilterIdle /\ NameIdle /\ SequenceIdle /\ FlattenIdle /\ MapIdle /\ PersistIdle /\ DownloadIdle /\ HotIdle

SpecRescale == InitSpecRescale /\ [][NextRescale]_vars

InitSpecFind ==
    InitFind /\ PatchIdle /\ PredictIdle /\ ScanIdle /\ GetIdle /\ RescaleIdle /\ ExtractIdle /\ FilterIdle /\ NameIdle /\ SequenceIdle /\ FlattenIdle /\ MapIdle /\ PersistIdle /\ DownloadIdle /\ HotIdle

SpecFind == InitSpecFind /\ [][NextFind]_vars

InitSpecExtract ==
    InitExtract /\ PatchIdle /\ PredictIdle /\ ScanIdle /\ GetIdle /\ RescaleIdle
    /\ FindIdle /\ FilterIdle /\ NameIdle /\ SequenceIdle /\ FlattenIdle /\ MapIdle /\ PersistIdle /\ DownloadIdle /\ HotIdle

SpecExtract == InitSpecExtract /\ [][NextExtract]_vars

InitSpecFilter ==
    InitFilter /\ PatchIdle /\ PredictIdle /\ ScanIdle /\ GetIdle /\ RescaleIdle
    /\ FindIdle /\ ExtractIdle /\ NameIdle /\ SequenceIdle /\ FlattenIdle /\ MapIdle /\ PersistIdle /\ DownloadIdle /\ HotIdle

SpecFilter == InitSpecFilter /\ [][NextFilter]_vars

InitSpecName ==
    InitName /\ PatchIdle /\ PredictIdle /\ ScanIdle /\ GetIdle /\ RescaleIdle
    /\ FindIdle /\ ExtractIdle /\ FilterIdle /\ SequenceIdle /\ FlattenIdle /\ MapIdle /\ PersistIdle /\ DownloadIdle /\ HotIdle

SpecName == InitSpecName /\ [][NextName]_vars

InitSpecSequence ==
    InitSequence /\ PatchIdle /\ PredictIdle /\ ScanIdle /\ GetIdle /\ RescaleIdle
    /\ FindIdle /\ ExtractIdle /\ FilterIdle /\ NameIdle /\ FlattenIdle /\ MapIdle /\ PersistIdle /\ DownloadIdle /\ HotIdle

SpecSequence == InitSpecSequence /\ [][NextSequence]_vars

InitSpecFlatten ==
    InitFlatten /\ PatchIdle /\ PredictIdle /\ ScanIdle /\ GetIdle /\ RescaleIdle
    /\ FindIdle /\ ExtractIdle /\ FilterIdle /\ NameIdle /\ SequenceIdle /\ MapIdle /\ PersistIdle /\ DownloadIdle /\ HotIdle

SpecFlatten == InitSpecFlatten /\ [][NextFlatten]_vars

InitSpecMap ==
    InitMap /\ PatchIdle /\ PredictIdle /\ ScanIdle /\ GetIdle /\ RescaleIdle
    /\ FindIdle /\ ExtractIdle /\ FilterIdle /\ NameIdle /\ SequenceIdle /\ FlattenIdle /\ PersistIdle /\ DownloadIdle /\ HotIdle

SpecMap == InitSpecMap /\ [][NextMap]_vars

InitSpecPersist ==
    InitPersist /\ PatchIdle /\ PredictIdle /\ ScanIdle /\ GetIdle /\ RescaleIdle
    /\ FindIdle /\ ExtractIdle /\ FilterIdle /\ NameIdle /\ SequenceIdle /\ FlattenIdle
    /\ MapIdle /\ DownloadIdle /\ HotIdle

SpecPersist == InitSpecPersist /\ [][NextPersist]_vars

InitSpecDownload ==
    InitDownload /\ PatchIdle /\ PredictIdle /\ ScanIdle /\ GetIdle /\ RescaleIdle
    /\ FindIdle /\ ExtractIdle /\ FilterIdle /\ NameIdle /\ SequenceIdle /\ FlattenIdle
    /\ MapIdle /\ PersistIdle /\ HotIdle

SpecDownload == InitSpecDownload /\ [][NextDownload]_vars

InitSpecHot ==
    InitHot /\ PatchIdle /\ PredictIdle /\ ScanIdle /\ GetIdle /\ RescaleIdle
    /\ FindIdle /\ ExtractIdle /\ FilterIdle /\ NameIdle /\ SequenceIdle /\ FlattenIdle
    /\ MapIdle /\ PersistIdle /\ DownloadIdle

SpecHot == InitSpecHot /\ [][NextHot]_vars

-----------------------------------------------------------------------------
(* Properties                                                               *)

PatchDone == patch_out # Pending
PredictDone == predict_out # Pending

MaskArgs == <<masks.is_hot, masks.is_cloud, masks.is_water, masks.is_night>>

AllEqual(a, b) == \A k \in DOMAIN a.data : a.data[k] = b

\* C8: predict returns, at every pixel, is_hot AND (is_night OR (NOT is_cloud
\* AND NOT is_water)); an all-false is_hot gives an all-false result, and an
\* all-true is_hot with all-false cloud, water and night an all-true result.
C8_PredictFormula ==
    (PredictDone /\ shapes_match(MaskArgs)) =>
        /\ ~IsError(predict_out)
        /\ predict_out.shape = masks.is_hot.shape
        /\ DOMAIN predict_out.data = 1..Size(masks.is_hot.shape)
        /\ \A k \in 1..Size(masks.is_hot.shape) :
              predict_out.data[k] =
                 (masks.is_hot.data[k]
                  /\ (masks.is_night.data[k]
                      \/ (~masks.is_cloud.data[k] /\ ~masks.is_water.data[k])))
        /\ (AllEqual(masks.is_hot, FALSE) => AllEqual(predict_out, FALSE))
        /\ (AllEqual(masks.is_hot, TRUE) /\ AllEqual(masks.is_cloud, FALSE)
            /\ AllEqual(masks.is_water, FALSE) /\ AllEqual(masks.is_night, FALSE)
              => AllEqual(predict_out, TRUE))

\* A daylight pixel that is hot and in cloud but not over water is rejected,
\* beside a night pixel that is hot, in cloud and over water and is accepted.
C8_Witness ==
    /\ PredictDone
    /\ masks.is_hot = [shape |-> <<1, 2>>, data |-> <<TRUE, TRUE>>]
    /\ masks.is_cloud = [shape |-> <<1, 2>>, data |-> <<TRUE, TRUE>>]
    /\ masks.is_water = [shape |-> <<1, 2>>, data |-> <<FALSE, TRUE>>]
    /\ masks.is_night = [shape |-> <<1, 2>>, data |-> <<FALSE, TRUE>>]
    /\ predict_out = [shape |-> <<1, 2>>, data |-> <<FALSE, TRUE>>]

\* C9: predict on four masks whose shapes are not all equal raises ValueError,
\* and the shape check is the only step executed: no boolean combination is
\* computed and no partial or broadcast result is returned.
C9_ShapeMismatchRaisesFirst ==
    (PredictDone /\ ~shapes_match(MaskArgs)) =>
        /\ predict_out = Raise("ValueError")
        /\ predict_trace = <<"assert_shapes_match">>

\* Masks that numpy would broadcast (1x1 against 1x2) are rejected.
C9_Witness ==
    /\ PredictDone
    /\ masks.is_hot.shape = <<1, 2>>
    /\ masks.is_cloud.shape = <<1, 1>>
    /\ masks.is_water.shape = <<1, 2>>
    /\ masks.is_night.shape = <<1, 2>>
    /\ Broadcastable(MaskArgs)
    /\ predict_out = Raise("ValueError")

\* C10: for stride >= 1 and length <= max_index, get_patch_indices returns a
\* sequence that starts at 0, ends with max_index - length, and whose every
\* element e satisfies 0 <= e <= max_index - length.
C10_PatchIndicesFlush ==
    (PatchDone /\ patch_args.stride >= 1 /\ patch_args.length <= patch_args.max_index) =>
        /\ ~IsError(patch_out)
        /\ Len(patch_out.value) >= 1
        /\ patch_out.value[1] = 0
        /\ patch_out.value[Len(patch_out.value)] = patch_args.max_index - patch_args.length
        /\ \A i \in 1..Len(patch_out.value) :
              /\ 0 <= patch_out.value[i]
              /\ patch_out.value[i] <= patch_args.max_index - patch_args.length

\* The docstring's example get_patch_indices(7, 3, 3) = [0, 3, 4].
C10_Witness ==
    /\ PatchDone
    /\ patch_args = [max_index |-> 7, length |-> 3, stride |-> 3]
    /\ patch_out = [value |-> <<0, 3, 4>>]

GetDone == get_out # Pending

\* The files of a store that the request names: its region, its satellite and
\* a scan start within its minute.
Requested(store) ==
    {f \in store :
        /\ f.region = get_req.region
        /\ f.satellite = (IF get_req.satellite = "noaa-goes17" THEN "G17" ELSE "G16")
        /\ f.scan_start \div 2 = get_req.scan_time_utc \div 2}

Occurrences(trace, op) == Cardinality({i \in 1..Len(trace) : trace[i] = op})

Remote(trace) ==
    \E i \in 1..Len(trace) : trace[i] \in {"list_s3_files", "download"}

\* C1: constructing a GoesScan from a list of bands succeeds if and only if
\* the list has exactly 16 bands, their ids are exactly 1..16 and all bands
\* share one (region, satellite, scan start); otherwise it raises an error.
C1_AssembleIff ==
    (scan_out # Pending) =>
        (~IsError(scan_out) <=>
            /\ Len(scan_bands) = 16
            /\ {scan_bands[i].band_id : i \in 1..Len(scan_bands)} = 1..16
            /\ \A i, j \in 1..Len(scan_bands) :
                  /\ scan_bands[i].region = scan_bands[j].region
                  /\ scan_bands[i].satellite = scan_bands[j].satellite
                  /\ scan_bands[i].scan_start = scan_bands[j].scan_start)

\* A list of 16 consistent bands in which one band id occurs twice and
\* another is absent is rejected.
C1_Witness ==
    /\ scan_out # Pending
    /\ Len(scan_bands) = 16
    /\ {scan_bands[i].band_id : i \in 1..Len(scan_bands)} # 1..16
    /\ \A i \in 1..Len(scan_bands) : scan_bands[i].band_id \in 1..16
    /\ IsError(scan_out)

\* C2: get_goes_scan lists the local files first; when that listing has
\* exactly 16 files the scan is read from them and the remote store is never
\* listed or downloaded from; the remote store is consulted only after a local
\* listing whose count is not 16, and only when s3 access is allowed.
C2_LocalFirst ==
    [][(get_out = Pending /\ get_out' # Pending) =>
          /\ Len(get_trace') >= 1 /\ get_trace'[1] = "list_local_files"
          /\ (Cardinality(Requested(disk)) = 16 =>
                /\ get_trace' = <<"list_local_files", "read_netcdfs">>
                /\ {get_files'[i] : i \in 1..Len(get_files')} = Requested(disk)
                /\ Len(get_files') = 16
                /\ ~Remote(get_trace')
                /\ disk' = disk)
          /\ (Remote(get_trace') => (Cardinality(Requested(disk)) # 16 /\ get_req.s3))
      ]_vars

\* The local files are the complete scan and the remote store holds it too,
\* with s3 access allowed: the scan comes from the local files.
C2_Witness ==
    /\ GetDone
    /\ get_req.s3
    /\ Cardinality(Requested(disk)) = 16
    /\ Cardinality(Requested(s3store)) = 16
    /\ ~IsError(get_out)
    /\ get_trace = <<"list_local_files", "read_netcdfs">>

\* C3: when the local listing does not have exactly 16 files and the remote
\* retrieval does not yield exactly 16 files either (or s3 access is not
\* allowed), get_goes_scan raises; it lists the remote store at most once,
\* downloads at most once, reads at most once, and never returns a scan read
\* from a file set whose size is not 16.
C3_RaisesWithoutRetry ==
    [][(get_out = Pending /\ get_out' # Pending) =>
          /\ ((Cardinality(Requested(disk)) # 16
               /\ (~get_req.s3 \/ Cardinality(Requested(s3store)) # 16))
                => IsError(get_out'))
          /\ Occurrences(get_trace', "list_s3_files") <= 1
          /\ Occurrences(get_trace', "download") <= 1
          /\ Occurrences(get_trace', "read_netcdfs") <= 1
          /\ (~IsError(get_out') => Len(get_files') = 16)
      ]_vars

\* 15 local files and 17 remote files with s3 access allowed: one remote
\* listing, then an error.
C3_Witness ==
    /\ GetDone
    /\ get_req.s3
    /\ Cardinality(Requested(disk)) = 15
    /\ Cardinality(Requested(s3store)) = 17
    /\ IsError(get_out)
    /\ Occurrences(get_trace, "list_s3_files") = 1

\* C7: rescaling is idempotent in shape: rescale_to_2km applied to the result
\* of rescale_to_2km, of a band or of a scan, gives for every band id the array
\* shape of the first application, and the values unchanged for the bands that
\* pass through.
C7_RescaleIdempotent ==
    /\ rs_twice # Pending =>
          /\ rs_twice.rows = rs_once.rows
          /\ rs_twice.cols = rs_once.cols
          /\ rs_band.band_id \notin {1, 2, 3, 5} => rs_twice.Rad = rs_once.Rad
    /\ rs_scan_twice # Pending =>
          /\ ~IsError(rs_scan_twice)
          /\ \A k \in AllBandIds :
                /\ rs_scan_twice.bands[k].rows = rs_scan_once.bands[k].rows
                /\ rs_scan_twice.bands[k].cols = rs_scan_once.bands[k].cols
                /\ k \notin {1, 2, 3, 5} =>
                      rs_scan_twice.bands[k].Rad = rs_scan_once.bands[k].Rad

Grouped == "value" \in DOMAIN find_groups

FindDone == find_out # Pending /\ NotIdle(find_out)

\* The region, satellite and scan start that identify the scan of a file.
ScanKey(file) == <<file.region, file.satellite, file.scan_start>>

SameGroup(f, g) ==
    \E k \in 1..Len(find_groups.value) :
        f \in Range(find_groups.value[k]) /\ g \in Range(find_groups.value[k])

\* C6: group_filepaths_into_scans puts two files of the input into the same
\* group if and only if they have identical (region, satellite, scan start).
C6_GroupsByRegionSatelliteStart ==
    Grouped =>
        \A f, g \in Range(find_filepaths) : SameGroup(f, g) <=> ScanKey(f) = ScanKey(g)

\* A failure local to one group: a dataset name outside the grammar, a wrong
\* band count, a missing band, inconsistent metadata, or bands that do not
\* cover the same extent.
LocalFailure(group) ==
    \/ \E i \in 1..Len(group) : group[i].name_form # "match"
    \/ Len(group) # NumBands
    \/ missing_bands(group) # {}
    \/ ~consistent_attributes(group)
    \/ \E i, j \in 1..Len(group) :
          group[i].rows * NativeWidth(group[i].band_id)
              # group[j].rows * NativeWidth(group[j].band_id)

\* C4: a failure local to one group is caught inside its task and becomes a
\* None result, so the map over all groups returns.
C4_TaskFailuresBecomeNone ==
    /\ \A g \in DOMAIN find_results :
          (find_results[g] # Pending /\ LocalFailure(find_groups.value[g]))
              => find_results[g] = None
    /\ (Grouped /\ FindDone) => ~IsError(find_out)

\* The scans of the input whose 16 files are all there and well formed, and in
\* which the classifier finds a fire.
Detections(filepaths) ==
    {[scan_time_utc |-> key[3], region |-> key[1], satellite |-> key[2]] :
        key \in {k \in Regions \X Satellites \X ScanStarts :
                    LET OfScan(file) == ScanKey(file) = k
                    IN SelectSeq(filepaths, OfScan) = ScanFiles(k[1], k[2], k[3], TRUE)}}

\* C5: a batch in which some inputs are malformed completes: it returns the
\* detections of the well-formed inputs and does not raise.
C5_BatchCompletes ==
    FindDone =>
        /\ ~IsError(find_out)
        /\ Range(find_out.value) = Detections(find_filepaths)

ExtractDone == extract_out # Pending

\* C11: extract_patches_2d returns one patch per pair of a row start index and
\* a column start index of get_patch_indices, in row-major order; the patch of
\* the pair (i, j) is arr[i:i+height, j:j+width] at its full size height x
\* width, and the number of patches is the product of the two index counts.
C11_PatchesRowMajor ==
    (ExtractDone /\ ~IsError(extract_out)) =>
        LET arr == extract_args.arr
            rows == get_patch_indices(arr.shape[1], extract_args.height,
                                      extract_args.stride).value
            cols == get_patch_indices(arr.shape[2], extract_args.width,
                                      extract_args.stride).value
        IN /\ Len(extract_out.value) = Len(rows) * Len(cols)
           /\ \A a \in 1..Len(rows), b \in 1..Len(cols) :
                 LET patch == extract_out.value[(a - 1) * Len(cols) + b]
                 IN /\ patch.shape = <<extract_args.height, extract_args.width>>
                    /\ \A i \in 0..(extract_args.height - 1),
                          j \in 0..(extract_args.width - 1) :
                          patch.data[<<i, j>>] = arr.data[<<rows[a] + i, cols[b] + j>>]

\* A 3 x 4 array cut into 2 x 2 patches with stride 2: rows 0 and 1, columns 0
\* and 2, four patches.
C11_Witness ==
    /\ ExtractDone
    /\ ~IsError(extract_out)
    /\ extract_args.arr.shape = <<3, 4>>
    /\ extract_args.height = 2 /\ extract_args.width = 2 /\ extract_args.stride = 2
    /\ Len(extract_out.value) = 4
    /\ extract_out.value[2].data[<<0, 0>>] = <<0, 2>>
    /\ extract_out.value[3].data[<<0, 0>>] = <<1, 0>>

Constructed == scan_out # Pending /\ NotIdle(scan_out) /\ ~IsError(scan_out)

\* The band ids of 1..16 that no band of the list has.
Absent == (1..16) \ {scan_bands[i].band_id : i \in 1..Len(scan_bands)}

\* C12: for a list of bands in which at least one id of 1..16 is absent,
\* construction fails with the Missing bands error, and the set it names is
\* exactly the set of absent ids.
C12_MissingBandsNamed ==
    (scan_out # Pending /\ NotIdle(scan_out) /\ Absent # {}) =>
        /\ IsError(scan_out)
        /\ scan_out.error = "ValueError"
        /\ scan_out.message = "Missing bands"
        /\ scan_out.missing = Absent

\* The first 15 bands of a complete scan: the error names {16}.
C12_Witness ==
    /\ scan_out # Pending
    /\ Len(scan_bands) = 15
    /\ Absent = {16}
    /\ IsError(scan_out)
    /\ scan_out.missing = {16}

\* C13: in every constructed GoesScan the keys iterate as band_1 .. band_16 in
\* ascending order, whatever the order of the input list, and the value under
\* band_k is the input band whose band id is k.
C13_KeysAscending ==
    Constructed =>
        /\ scan_out.keys = [p \in 1..16 |-> p]
        /\ \A k \in 1..16 :
              /\ scan_out.bands[k].band_id = k
              /\ \E i \in 1..Len(scan_bands) : scan_bands[i] = scan_out.bands[k]

\* A scan constructed from the 16 bands in descending order.
C13_Witness ==
    /\ Constructed
    /\ scan_bands[1].band_id = 16
    /\ scan_bands[16].band_id = 1
    /\ scan_out.keys[1] = 1
    /\ scan_out.bands[1] = scan_bands[16]

\* The scan's bands 1, 3 and 5 have twice, its band 2 four times the rows and
\* columns of its band 16.
NativeSizes(scan) ==
    /\ \A k \in {1, 3, 5} :
          /\ scan.bands[k].rows = 2 * scan.bands[16].rows
          /\ scan.bands[k].cols = 2 * scan.bands[16].cols
    /\ scan.bands[2].rows = 4 * scan.bands[16].rows
    /\ scan.bands[2].cols = 4 * scan.bands[16].cols

\* C14: GoesScan.rescale_to_2km on a scan whose bands 1, 3, 5 have twice and
\* band 2 four times the size of band 16 returns a scan in which all 16 bands
\* have the array shape of band 16 and the x and y axes of the original band
\* 16, with the satellite, region and scan time of the original scan.
C14_RescaledScanAligned ==
    (rs_scan_once # Pending /\ NativeSizes(rs_scan)) =>
        /\ ~IsError(rs_scan_once)
        /\ \A k \in 1..16 :
              /\ rs_scan_once.bands[k].rows = rs_scan.bands[16].rows
              /\ rs_scan_once.bands[k].cols = rs_scan.bands[16].cols
              /\ DOMAIN rs_scan_once.bands[k].Rad = DOMAIN rs_scan.bands[16].Rad
              /\ rs_scan_once.bands[k].x = rs_scan.bands[16].x
              /\ rs_scan_once.bands[k].y = rs_scan.bands[16].y
        /\ rs_scan_once.satellite = rs_scan.satellite
        /\ rs_scan_once.region = rs_scan.region
        /\ rs_scan_once.scan_time_utc = rs_scan.scan_time_utc

\* A scan of 2 x 2 pixels at 2 km whose band 2 has 8 x 8 pixels, rescaled.
C14_Witness ==
    /\ rs_scan_once # Pending
    /\ NotIdle(rs_scan)
    /\ NativeSizes(rs_scan)
    /\ rs_scan.bands[16].rows = 2
    /\ rs_scan.bands[2].rows = 8
    /\ ~IsError(rs_scan_once)
    /\ rs_scan_once.bands[2].rows = 2
    /\ rs_scan_once.bands[2].x # rs_scan.bands[2].x

\* The stride that the spec gives a band id.
Stride(band_id) == IF band_id \in {1, 3, 5} THEN 2 ELSE IF band_id = 2 THEN 4 ELSE 1

C16_FilterBadPixels ==
    [][(fb_out = Pending /\ fb_out' # Pending) =>
          /\ fb_band' = fb_band
          /\ ~IsError(fb_out')
          /\ DOMAIN fb_out'.Rad = DOMAIN fb_band.Rad
          /\ \A ij \in DOMAIN fb_band.Rad :
                IF fb_band.DQF[ij] \in {[value |-> 0], [value |-> 1]}
                THEN fb_out'.Rad[ij] = fb_band.Rad[ij]
                ELSE fb_out'.Rad[ij] = NaN
          /\ fb_out'.band_id = fb_band.band_id
          /\ fb_out'.region = fb_band.region
          /\ fb_out'.satellite = fb_band.satellite
          /\ fb_out'.scan_start = fb_band.scan_start]_vars

\* A band of two pixels flagged 1 and 2: the first keeps its radiance, the
\* second becomes NaN.
C16_Witness ==
    /\ fb_out # Pending
    /\ NotIdle(fb_band)
    /\ DOMAIN fb_band.Rad = {<<0, 0>>, <<0, 1>>}
    /\ fb_band.DQF[<<0, 0>>] = [value |-> 1]
    /\ fb_band.DQF[<<0, 1>>] = [value |-> 2]
    /\ fb_out.Rad[<<0, 0>>] = fb_band.Rad[<<0, 0>>]
    /\ fb_out.Rad[<<0, 1>>] = NaN

\* The filename grammar: a framed name whose region is one of F, C, M1, M2,
\* whose band is two digits within 01..16, whose satellite is G and two digits
\* and whose start is a timestamp.
InGrammar(text) ==
    /\ text.framed
    /\ text.region \in {<<"F">>, <<"C">>, <<"M", "1">>, <<"M", "2">>}
    /\ Len(text.band) = 2 /\ IsDigits(text.band) /\ int(text.band) \in 1..16
    /\ Len(text.satellite) = 3 /\ text.satellite[1] = "G" /\ IsDigits(Tail(text.satellite))
    /\ text.start.timestamp

\* C17: parse_filename returns metadata only for names that match the
\* filename grammar; for every other name, a band outside 01..16 or an
\* unknown region included, it fails and returns nothing.
C17_ParseOnlyGrammar ==
    (nm_parsed # Pending /\ ~InGrammar(nm_text)) => IsError(nm_parsed)

SequenceBuilt == sq_out # Pending /\ NotIdle(sq_out) /\ ~IsError(sq_out)

\* C19: in every constructed GoesSequence all member scans share one
\* (satellite, region), which is the sequence's own; a list of scans that
\* differ in satellite or region never yields a sequence.
C19_SequenceSameOrigin ==
    SequenceBuilt =>
        /\ \A i \in 1..Len(sq_scans) :
              /\ sq_scans[i].satellite = sq_out.satellite
              /\ sq_scans[i].region = sq_out.region
        /\ \A key \in DOMAIN sq_out.scans :
              /\ sq_out.scans[key].satellite = sq_out.satellite
              /\ sq_out.scans[key].region = sq_out.region

\* C20: building a GoesSequence does not depend on the order of its input:
\* every permutation of the same list of scans yields the same sequence.
C20_SequenceOrderIndependent ==
    (sq_out # Pending /\ NotIdle(sq_out) /\ sq_permuted_out # Pending) =>
        sq_permuted_out = sq_out

\* C21: in every constructed GoesSequence the keys iterate in strictly
\* ascending scan-start order whatever the order of the input list,
\* first_scan_utc is the least key and last_scan_utc the greatest.
C21_SequenceKeysAscending ==
    SequenceBuilt =>
        /\ \A i, j \in 1..Len(sq_out.keys) : i < j => sq_out.keys[i] < sq_out.keys[j]
        /\ {sq_out.keys[i] : i \in 1..Len(sq_out.keys)} = DOMAIN sq_out.scans
        /\ DOMAIN sq_out.scans = {sq_scans[i].scan_time_utc : i \in 1..Len(sq_scans)}
        /\ \A key \in DOMAIN sq_out.scans :
              sq_out.first_scan_utc <= key /\ key <= sq_out.last_scan_utc
        /\ sq_out.first_scan_utc \in DOMAIN sq_out.scans
        /\ sq_out.last_scan_utc \in DOMAIN sq_out.scans

\* A sequence built from three scans given latest first.
C21_Witness ==
    /\ SequenceBuilt
    /\ Len(sq_scans) = 3
    /\ sq_scans[1].scan_time_utc = 4
    /\ sq_scans[2].scan_time_utc = 3
    /\ sq_scans[3].scan_time_utc = 2
    /\ sq_out.keys = <<2, 3, 4>>
    /\ sq_out.first_scan_utc = 2
    /\ sq_out.last_scan_utc = 4

MapDone == mp_out # Pending /\ NotIdle(mp_out)

\* C22: map_function over N input elements, with a function of one argument
\* and no flattening asked for, returns a list of exactly N results whose
\* i-th result is the function's value on the i-th input, whatever the order
\* in which the workers finished.
C22_MapKeepsInputOrder ==
    (MapDone /\ mp_arity = 1 /\ ~mp_flatten) =>
        mp_out = [value |-> [i \in 1..Len(mp_args) |->
                                function(mp_arity, <<mp_args[i]>>).value]]

FlattenDone == fl_out # Pending /\ NotIdle(fl_out)

\* C23: flatten_array of a list of lists returns the items of the first list,
\* then those of the second, and so on, whatever the lengths of the lists.
C23_FlattenConcatenates ==
    (FlattenDone /\ \A i \in 1..Len(fl_arr) : IsList(fl_arr[i])) =>
        fl_out = [value |-> items_of_lists(fl_arr)]

Dirname(path) == SubSeq(path, 1, Len(path) - 1)

\* C24: GoesScan.to_netcdf(directory) writes every band at directory / S3
\* key, which is the path at which download_file stores that band and lies in
\* the directory in which list_local_files looks for it.
C24_PersistedWhereDownloaded ==
    /\ (ps_written # Pending) =>
          \A band_id \in 1..NumBands :
             ps_written.value[band_id] =
                <<<<"directory">>>> \o split_path(S3Filepath(BandText(ps_scan, band_id))).key
    /\ (ps_written # Pending) =>
          \A band_id \in 1..Len(ps_downloaded) :
             ps_written.value[band_id] = ps_downloaded[band_id]
    /\ (ps_written # Pending /\ ps_searched # Pending) =>
          \A band_id \in 1..NumBands :
             Dirname(ps_written.value[band_id]) = ps_searched.value

\* Whether a scan can be assembled from the files: their band ids are 1..16,
\* once each, and they share one scan start.
WellFormed(files) ==
    /\ Cardinality(files) = 16
    /\ {f.band_id : f \in files} = 1..16
    /\ \A f, g \in files : f.scan_start = g.scan_start

\* C25: when the local listing has exactly 16 files from which no scan can be
\* assembled, get_goes_scan raises the error of the assembly and neither
\* lists nor downloads from the remote store, also when s3 access is allowed
\* and the remote store holds the whole scan.
C25_BadLocalNeverRemote ==
    [][(get_out = Pending /\ get_out' # Pending
        /\ Cardinality(Requested(disk)) = 16 /\ ~WellFormed(Requested(disk))) =>
          /\ IsError(get_out')
          /\ get_out'.error = "ValueError"
          /\ get_out'.message =
                (IF {f.band_id : f \in Requested(disk)} # 1..16 THEN "Missing bands"
                 ELSE "All bands must have the same scan start time, region, and satellite")
          /\ get_trace' = <<"list_local_files", "read_netcdfs">>
          /\ ~Remote(get_trace')
          /\ disk' = disk
      ]_vars

\* Sixteen local files with two of band 1 and none of band 16, s3 access
\* allowed and the whole scan in the remote store: the call has raised
\* without a remote operation.
C25_Witness ==
    /\ GetDone
    /\ NotIdle(get_out)
    /\ get_req.s3
    /\ Cardinality(Requested(disk)) = 16
    /\ Cardinality({f \in Requested(disk) : f.band_id = 1}) = 2
    /\ ~\E f \in Requested(disk) : f.band_id = 16
    /\ WellFormed(Requested(s3store))
    /\ IsError(get_out)
    /\ get_out.message = "Missing bands"
    /\ ~Remote(get_trace)

\* The files of a store that match download_files' arguments.
Matching(store) ==
    {f \in store : f.region = "M1" /\ f.satellite = "G17" /\ f.scan_start \div 2 = 1}

\* C26: download_files downloads exactly the matching remote files that are
\* not listed locally and returns the local paths of all matching remote
\* files; a second call with the same arguments and the same remote store
\* downloads nothing and returns the same set of paths.
C26_DownloadOnlyMissing ==
    /\ (dl_first # Pending /\ NotIdle(dl_first)) =>
          /\ ~IsError(dl_first.out)
          /\ dl_first.downloaded = Matching(dl_remote) \ Matching(dl_first.before)
          /\ Range(dl_first.out.value) = Matching(dl_remote)
    /\ (dl_second # Pending /\ NotIdle(dl_second)) =>
          /\ ~IsError(dl_second.out)
          /\ dl_second.downloaded = {}
          /\ Range(dl_second.out.value) = Range(dl_first.out.value)

\* C27: 'Too many bands provided' is raised only for a list of more than 16
\* bands in which every id 1..16 is present, never for fewer than 16 bands;
\* the inconsistent-attributes error is raised only for a list of exactly 16
\* bands whose ids are exactly 1..16.
C27_ErrorPrecedence ==
    (scan_out # Pending /\ NotIdle(scan_out) /\ IsError(scan_out)) =>
        /\ scan_out.message \in
              {"Missing bands", "Too many bands provided",
               "All bands must have the same scan start time, region, and satellite"}
        /\ (scan_out.message = "Too many bands provided" =>
               Len(scan_bands) > 16 /\ Absent = {})
        /\ (scan_out.message =
               "All bands must have the same scan start time, region, and satellite" =>
               /\ Len(scan_bands) = 16
               /\ {scan_bands[i].band_id : i \in 1..Len(scan_bands)} = 1..16)
        /\ (Len(scan_bands) < 16 => scan_out.message = "Missing bands")

\* Seventeen bands with every id present and a band of another region among
\* them: the count is what the error names.
C27_Witness ==
    /\ scan_out # Pending /\ NotIdle(scan_out)
    /\ Len(scan_bands) = 17
    /\ Absent = {}
    /\ \E i \in 1..Len(scan_bands) : scan_bands[i].region # scan_bands[1].region
    /\ IsError(scan_out)
    /\ scan_out.message = "Too many bands provided"

\* The positions of the input whose path has the given scan start.
PositionsOf(scan_start) ==
    {i \in 1..Len(find_filepaths) : find_filepaths[i].scan_start = scan_start}

C29_PatchesCoverAxis ==
    (PatchDone /\ 1 <= patch_args.stride /\ patch_args.stride <= patch_args.length
     /\ patch_args.length <= patch_args.max_index) =>
        /\ ~IsError(patch_out)
        /\ \A index \in 0..(patch_args.max_index - 1) :
              \E k \in 1..Len(patch_out.value) :
                 /\ patch_out.value[k] <= index
                 /\ index < patch_out.value[k] + patch_args.length
        /\ \A k \in 1..(Len(patch_out.value) - 1) :
              patch_out.value[k] < patch_out.value[k + 1]

\* max_index - length = 4 is a multiple of stride = 2: the last start is
\* returned once.
C29_Witness ==
    /\ PatchDone
    /\ patch_args = [max_index |-> 7, length |-> 3, stride |-> 2]
    /\ patch_out = [value |-> <<0, 2, 4>>]

\* C30: a NaN pixel in the band-7 brightness temperature, or in the
\* difference of band 7 and band 14, makes is_hot_pixel false at every
\* pixel, the prediction false at every pixel, and parse_scan_for_wildfire
\* report no wildfire.
C30_NaNSilencesHotPixels ==
    (HasNaN(hot_bt7) \/ HasNaN(hot_bt14)) =>
        /\ (hot_is_hot # Pending) =>
              \A i \in 1..NumHotPixels : ~hot_is_hot.data[i]
        /\ (hot_prediction # Pending) =>
              /\ ~IsError(hot_prediction)
              /\ \A i \in 1..NumHotPixels : ~hot_prediction.data[i]
        /\ (hot_report # Pending) => hot_report = None

\* Band 7 has one pixel of 400 K among pixels of 300 K and one NaN pixel, at
\* night: no wildfire is reported.
C30_Witness ==
    /\ hot_report = None
    /\ hot_bt7[1] = [value |-> 400]
    /\ hot_bt7[2] = NaN
    /\ hot_bt7[3] = [value |-> 300]
    /\ ~HasNaN(hot_bt14)
    /\ hot_other.is_night

====
